---- MODULE Spec2Model ----
(***************************************************************************)
(* Verification model of the PDF table extraction pipeline.                *)
(*                                                                         *)
(* The repository is a set of loosely coupled components.  Each component  *)
(* has its own group of variables and its own specification (SpecAgentic,  *)
(* SpecChunk, ...); a component's specification leaves the variables of    *)
(* the other components at their idle values.                              *)
(*                                                                         *)
(* Strings whose characters matter (values scanned for unit symbols,       *)
(* regular expression subjects, stored texts) are sequences of             *)
(* one-character strings.                                                  *)
(***************************************************************************)
EXTENDS Integers, Sequences, FiniteSets, TLC

VARIABLES
    \* agentic_processor_simple.AgenticProcessor.process_with_iterations
    ag_pc,            \* "idle" | "loop" | "break" | "returned" | "raised"
    ag_max,           \* max_iterations argument
    ag_iteration,     \* loop variable `iteration`
    ag_results,       \* iteration_results (list of iteration_data)
    ag_table,         \* current_table
    ag_return,        \* the returned dict
    \* chunking_processor.ChunkingProcessor._chunk_narrative_text
    ch_pc,            \* "idle" | "input" | "done"
    ch_lines,         \* text_lines argument (each line given by its len())
    ch_page,          \* page_num argument
    ch_chunks,        \* the returned list of chunks
    \* schema_validator.SchemaValidator transform_to_canonical / validate_data
    sv_pc,            \* "idle" | "input" | "transformed" | "validated"
    sv_rows,          \* extracted_data argument
    sv_canonical,     \* result of transform_to_canonical
    sv_result,        \* result of validate_data on sv_canonical
    \* schema_validator.SchemaValidator._extract_unit
    un_pc,            \* "idle" | "input" | "done"
    un_value,         \* value argument
    un_unit,          \* returned unit
    \* merge_normalize_qa.MergeNormalizeQA.normalize_units_regex
    nu_pc,            \* "idle" | "input" | "done"
    nu_value,         \* value argument
    nu_out,           \* returned (normalized value, unit)
    \* merge_normalize_qa.MergeNormalizeQA.process_merge_normalize_qa
    mq_pc,            \* "idle" | "input" | "done"
    mq_input,         \* extraction_results (the three arrays)
    mq_normalized,    \* normalized_data, the list normalize_units returned
    mq_results,       \* the returned dict
    \* llm_structured_extractor.LLMStructuredExtractor.process_structured_extraction
    ex_pc,            \* "idle" | "input" | "done"
    ex_payload,       \* payload["raw"]: the tables, kvs and text_chunks batches
    ex_replies,       \* what the model call of each batch item came to
    ex_results,       \* structured_results, the returned dict
    \* deduplication_utils.deduplicate_by_semantic_similarity
    dd_pc,            \* "idle" | "input" | "once" | "twice"
    dd_data,          \* data argument
    dd_sim,           \* what is_similar answers for each ordered pair
    dd_once,          \* result of the call on data
    dd_twice,         \* result of the call on that result
    \* storage_manager.TextStorageManager
    st_files,         \* the files of storage_dir: set of [name, content]
    st_stored,        \* what store_extracted_text was given and returned
    st_calls,         \* number of calls made
    st_results_calls, \* store_processing_results calls made per text_id
    \* textract_processor.TextractProcessor.extract_text_from_pdf_bytes
    tx_pc,            \* position in the call, "returned" / "raised" at its end
    tx_result,        \* the result pages the remote job holds
    tx_staged,        \* the staged object is in the bucket
    tx_log,           \* remote operations completed or issued, in order
    tx_polls,         \* polls answered IN_PROGRESS
    tx_status,        \* status
    tx_next_token,    \* next_token, 0 for None
    tx_pages,         \* pages
    \* app.py request handlers
    ap_pc,            \* "request" | "done"
    ap_request,       \* the request: uploaded parts and JSON body
    ap_route,         \* the handler that ran
    ap_invoked,       \* the component behind the handler was called
    ap_outcome,       \* what that component did
    ap_response,      \* the response, or the escaped exception
    \* agentic_processor_streaming.process_with_streaming
    sg_pc,            \* position in the generator
    sg_max,           \* max_iterations
    sg_iteration,     \* iteration
    sg_events,        \* the events yielded so far
    sg_results,       \* iteration_results
    sg_table,         \* current_table
    sg_final,         \* final_result
    \* structured_llm_processor / per-item tasks awaited together
    ll_pc,            \* "running" | "done"
    ll_input,         \* which function runs and how many units it is given
    ll_outcomes,      \* what each finished task met
    ll_completed,     \* the value or exception of each task
    ll_order,         \* task positions in the order they finished
    ll_results,       \* the returned results
    \* cost tracker of the structured processor
    ct_tracker,       \* cost_tracker
    ct_calls,         \* the completion calls made so far, with their responses
    \* textract_processor.TextractProcessor._split_paragraph_at_structured_data
    sp_pc,            \* position in the call
    sp_text,          \* text
    sp_matches,       \* matches, sorted
    sp_i,             \* index of the next match of the for loop
    sp_last_end,      \* last_end
    sp_segments,      \* segments
    \* structured_llm_processor.split_text_section
    ss_pc,            \* position in the call
    ss_text_lines,    \* text_lines
    ss_max_lines,     \* max_lines
    ss_chunks,        \* chunks
    \* textract_processor.TextractProcessor._merge_lines_into_paragraphs
    ml_pc,            \* position in the call
    ml_line_blocks,   \* line_blocks
    ml_paragraphs     \* the paragraphs assembled, before they are split

agVars == <<ag_pc, ag_max, ag_iteration, ag_results, ag_table, ag_return>>
chVars == <<ch_pc, ch_lines, ch_page, ch_chunks>>
svVars == <<sv_pc, sv_rows, sv_canonical, sv_result>>
unVars == <<un_pc, un_value, un_unit>>
nuVars == <<nu_pc, nu_value, nu_out>>
mqVars == <<mq_pc, mq_input, mq_normalized, mq_results>>
exVars == <<ex_pc, ex_payload, ex_replies, ex_results>>
ddVars == <<dd_pc, dd_data, dd_sim, dd_once, dd_twice>>
stVars == <<st_files, st_stored, st_calls, st_results_calls>>
txVars ==
    <<tx_pc, tx_result, tx_staged, tx_log, tx_polls, tx_status, tx_next_token,
      tx_pages>>
apVars == <<ap_pc, ap_request, ap_route, ap_invoked, ap_outcome, ap_response>>
sgVars == <<sg_pc, sg_max, sg_iteration, sg_events, sg_results, sg_table, sg_final>>
llVars == <<ll_pc, ll_input, ll_outcomes, ll_completed, ll_order, ll_results>>
ctVars == <<ct_tracker, ct_calls>>
spVars == <<sp_pc, sp_text, sp_matches, sp_i, sp_last_end, sp_segments>>
ssVars == <<ss_pc, ss_text_lines, ss_max_lines, ss_chunks>>
mlVars == <<ml_pc, ml_line_blocks, ml_paragraphs>>

vars ==
    <<agVars, chVars, svVars, unVars, nuVars, mqVars, exVars, ddVars,
      stVars, txVars, apVars, sgVars, llVars, ctVars, spVars, ssVars,
      mlVars>>

\* what the actions of one component leave alone
notAg ==
    <<chVars, svVars, unVars, nuVars, mqVars, exVars, ddVars, stVars,
      txVars, apVars, sgVars, llVars, ctVars, spVars, ssVars, mlVars>>
notCh ==
    <<agVars, svVars, unVars, nuVars, mqVars, exVars, ddVars, stVars,
      txVars, apVars, sgVars, llVars, ctVars, spVars, ssVars, mlVars>>
notSv ==
    <<agVars, chVars, unVars, nuVars, mqVars, exVars, ddVars, stVars,
      txVars, apVars, sgVars, llVars, ctVars, spVars, ssVars, mlVars>>
notUn ==
    <<agVars, chVars, svVars, nuVars, mqVars, exVars, ddVars, stVars,
      txVars, apVars, sgVars, llVars, ctVars, spVars, ssVars, mlVars>>
notNu ==
    <<agVars, chVars, svVars, unVars, mqVars, exVars, ddVars, stVars,
      txVars, apVars, sgVars, llVars, ctVars, spVars, ssVars, mlVars>>
notMq ==
    <<agVars, chVars, svVars, unVars, nuVars, exVars, ddVars, stVars,
      txVars, apVars, sgVars, llVars, ctVars, spVars, ssVars, mlVars>>
notEx ==
    <<agVars, chVars, svVars, unVars, nuVars, mqVars, ddVars, stVars,
      txVars, apVars, sgVars, llVars, ctVars, spVars, ssVars, mlVars>>
notDd ==
    <<agVars, chVars, svVars, unVars, nuVars, mqVars, exVars, stVars,
      txVars, apVars, sgVars, llVars, ctVars, spVars, ssVars, mlVars>>
notSt ==
    <<agVars, chVars, svVars, unVars, nuVars, mqVars, exVars, ddVars,
      txVars, apVars, sgVars, llVars, ctVars, spVars, ssVars, mlVars>>
notTx ==
    <<agVars, chVars, svVars, unVars, nuVars, mqVars, exVars, ddVars,
      stVars, apVars, sgVars, llVars, ctVars, spVars, ssVars, mlVars>>
notAp ==
    <<agVars, chVars, svVars, unVars, nuVars, mqVars, exVars, ddVars,
      stVars, txVars, sgVars, llVars, ctVars, spVars, ssVars, mlVars>>
notSg ==
    <<agVars, chVars, svVars, unVars, nuVars, mqVars, exVars, ddVars,
      stVars, txVars, apVars, llVars, ctVars, spVars, ssVars, mlVars>>
notLl ==
    <<agVars, chVars, svVars, unVars, nuVars, mqVars, exVars, ddVars,
      stVars, txVars, apVars, sgVars, ctVars, spVars, ssVars, mlVars>>
notCt ==
    <<agVars, chVars, svVars, unVars, nuVars, mqVars, exVars, ddVars,
      stVars, txVars, apVars, sgVars, llVars, spVars, ssVars, mlVars>>
notSp ==
    <<agVars, chVars, svVars, unVars, nuVars, mqVars, exVars, ddVars,
      stVars, txVars, apVars, sgVars, llVars, ctVars, ssVars, mlVars>>
notSs ==
    <<agVars, chVars, svVars, unVars, nuVars, mqVars, exVars, ddVars,
      stVars, txVars, apVars, sgVars, llVars, ctVars, spVars, mlVars>>
notMl ==
    <<agVars, chVars, svVars, unVars, nuVars, mqVars, exVars, ddVars,
      stVars, txVars, apVars, sgVars, llVars, ctVars, spVars, ssVars>>

(***************************************************************************)
(* Generic helpers                                                         *)
(***************************************************************************)
Range(s) == {s[i] : i \in DOMAIN s}

Last(s) == s[Len(s)]

RECURSIVE SumSeq(_)
SumSeq(s) == IF s = <<>> THEN 0 ELSE Head(s) + SumSeq(Tail(s))

RECURSIVE Flatten(_)
Flatten(ss) == IF ss = <<>> THEN <<>> ELSE Head(ss) \o Flatten(Tail(ss))

\* All sequences over S of length 0..n
SeqsUpTo(S, n) == UNION {[1..k -> S] : k \in 0..n}

(***************************************************************************)
(* Idle values: the state of a component nothing has called yet            *)
(***************************************************************************)
AgIdle ==
    /\ ag_pc = "idle"
    /\ ag_max = 0
    /\ ag_iteration = 0
    /\ ag_results = <<>>
    /\ ag_table = "empty"
    /\ ag_return = [status |-> "none"]

ChIdle ==
    /\ ch_pc = "idle"
    /\ ch_lines = <<>>
    /\ ch_page = 0
    /\ ch_chunks = <<>>

SvIdle ==
    /\ sv_pc = "idle"
    /\ sv_rows = <<>>
    /\ sv_canonical = <<>>
    /\ sv_result = [valid |-> FALSE]

UnIdle ==
    /\ un_pc = "idle"
    /\ un_value = <<>>
    /\ un_unit = <<>>

NuIdle ==
    /\ nu_pc = "idle"
    /\ nu_value = <<>>
    /\ nu_out = <<>>

MqIdle ==
    /\ mq_pc = "idle"
    /\ mq_input = <<>>
    /\ mq_normalized = <<>>
    /\ mq_results = [success |-> FALSE]

ExIdle ==
    /\ ex_pc = "idle"
    /\ ex_payload = [tables |-> <<>>, kvs |-> <<>>, text_chunks |-> <<>>]
    /\ ex_replies = [tables |-> <<>>, kvs |-> <<>>, narrative |-> <<>>]
    /\ ex_results = [status |-> "none"]

DdIdle ==
    /\ dd_pc = "idle"
    /\ dd_data = <<>>
    /\ dd_sim = <<>>
    /\ dd_once = <<>>
    /\ dd_twice = <<>>

StIdle ==
    /\ st_files = {}
    /\ st_stored = {}
    /\ st_calls = 0
    /\ st_results_calls = <<>>

TxIdle ==
    /\ tx_pc = "idle"
    /\ tx_result = <<>>
    /\ tx_staged = FALSE
    /\ tx_log = <<>>
    /\ tx_polls = 0
    /\ tx_status = "none"
    /\ tx_next_token = 0
    /\ tx_pages = <<>>

ApIdle ==
    /\ ap_pc = "idle"
    /\ ap_request = <<>>
    /\ ap_route = "none"
    /\ ap_invoked = FALSE
    /\ ap_outcome = "none"
    /\ ap_response = <<>>

SgIdle ==
    /\ sg_pc = "idle"
    /\ sg_max = 0
    /\ sg_iteration = 0
    /\ sg_events = <<>>
    /\ sg_results = <<>>
    /\ sg_table = "none"
    /\ sg_final = <<>>

LlIdle ==
    /\ ll_pc = "idle"
    /\ ll_input = <<>>
    /\ ll_outcomes = <<>>
    /\ ll_completed = <<>>
    /\ ll_order = <<>>
    /\ ll_results = <<>>

CtIdle ==
    /\ ct_tracker = [total_input_tokens |-> 0, total_output_tokens |-> 0, api_calls |-> 0]
    /\ ct_calls = <<>>

SpIdle ==
    /\ sp_pc = "idle"
    /\ sp_text = <<>>
    /\ sp_matches = <<>>
    /\ sp_i = 1
    /\ sp_last_end = 0
    /\ sp_segments = <<>>

SsIdle ==
    /\ ss_pc = "idle"
    /\ ss_text_lines = <<>>
    /\ ss_max_lines = 1
    /\ ss_chunks = <<>>

MlIdle ==
    /\ ml_pc = "idle"
    /\ ml_line_blocks = <<>>
    /\ ml_paragraphs = <<>>

\* every component but `c` is idle
IdleExcept(c) ==
    /\ IF c = "ag" THEN TRUE ELSE AgIdle
    /\ IF c = "ch" THEN TRUE ELSE ChIdle
    /\ IF c = "sv" THEN TRUE ELSE SvIdle
    /\ IF c = "un" THEN TRUE ELSE UnIdle
    /\ IF c = "nu" THEN TRUE ELSE NuIdle
    /\ IF c = "mq" THEN TRUE ELSE MqIdle
    /\ IF c = "ex" THEN TRUE ELSE ExIdle
    /\ IF c = "dd" THEN TRUE ELSE DdIdle
    /\ IF c = "st" THEN TRUE ELSE StIdle
    /\ IF c = "tx" THEN TRUE ELSE TxIdle
    /\ IF c = "ap" THEN TRUE ELSE ApIdle
    /\ IF c = "sg" THEN TRUE ELSE SgIdle
    /\ IF c = "ll" THEN TRUE ELSE LlIdle
    /\ IF c = "ct" THEN TRUE ELSE CtIdle
    /\ IF c = "sp" THEN TRUE ELSE SpIdle
    /\ IF c = "ss" THEN TRUE ELSE SsIdle
    /\ IF c = "ml" THEN TRUE ELSE MlIdle

(***************************************************************************)
(* 1. Non-streaming agentic loop (agentic_processor_simple.py)             *)
(***************************************************************************)
MaxIterationsBound == 4

CoverageThreshold == 95

\* coverage_score values the verifier may report; NoScore stands for a
\* verification dict without the key (read as 0 by .get("coverage_score", 0))
NoScore == -1
CoverageReports == {NoScore, 0, 94, 95, 96, 98}

\* verification.get("coverage_score", 0)
GetCoverage(report) == IF report = NoScore THEN 0 ELSE report

\* tables the tabulation call may return in "data"
TableVersions == {"t1", "t2"}

\* the early-exit test a plausible slip would write (no minimum of two)
ShouldStopNoMinimum(coverage, iteration) == coverage >= CoverageThreshold

\* `if coverage >= 95 and iteration > 0`
ShouldStop(coverage, iteration) ==
    coverage >= CoverageThreshold /\ iteration > 0

\* entry of process_with_iterations: locals initialised, loop about to start
AgCall ==
    /\ ag_pc = "idle"
    /\ \E m \in 0..MaxIterationsBound : ag_max' = m
    /\ ag_pc' = "loop"
    /\ ag_iteration' = 0
    /\ ag_results' = <<>>
    /\ ag_table' = "empty"
    /\ UNCHANGED ag_return
    /\ UNCHANGED notAg

\* one pass of the loop body in which all three model calls return;
\* ag_pc = "break" records that the pass ended in the break statement
AgIteration ==
    /\ ag_pc = "loop"
    /\ ag_iteration < ag_max
    /\ \E tbl \in TableVersions, report \in CoverageReports :
         LET coverage == GetCoverage(report)
             iteration_data == [iteration |-> ag_iteration + 1,
                                table |-> tbl,
                                coverage_score |-> coverage]
         IN /\ ag_table' = tbl
            /\ ag_results' = Append(ag_results, iteration_data)
            /\ IF ShouldStop(coverage, ag_iteration)
                 THEN ag_iteration' = ag_iteration /\ ag_pc' = "break"
                 ELSE ag_iteration' = ag_iteration + 1 /\ ag_pc' = "loop"
    /\ UNCHANGED <<ag_max, ag_return>>
    /\ UNCHANGED notAg

\* one pass of the loop body in which analyze, tabulate or verify raises:
\* nothing in process_with_iterations catches it, the call raises
AgIterationRaises ==
    /\ ag_pc = "loop"
    /\ ag_iteration < ag_max
    /\ \E step \in {"analyze", "tabulate", "verify"}, tbl \in TableVersions :
         /\ ag_table' = IF step = "verify" THEN tbl ELSE ag_table
         /\ ag_pc' = "raised"
         /\ ag_return' = [status |-> "raised", step |-> step]
    /\ UNCHANGED <<ag_max, ag_iteration, ag_results>>
    /\ UNCHANGED notAg

\* the return statement after the loop (range exhausted or break)
AgReturn ==
    /\ \/ ag_pc = "break"
       \/ ag_pc = "loop" /\ ag_iteration >= ag_max
    /\ ag_pc' = "returned"
    /\ ag_return' = [status |-> "returned",
                     final_tabulation |-> ag_table,
                     iteration_history |-> ag_results,
                     total_iterations |-> Len(ag_results),
                     final_coverage |-> IF ag_results # <<>>
                                          THEN Last(ag_results).coverage_score
                                          ELSE 0]
    /\ UNCHANGED <<ag_max, ag_iteration, ag_results, ag_table>>
    /\ UNCHANGED notAg

AgNext == AgCall \/ AgIteration \/ AgIterationRaises \/ AgReturn

InitAgentic == AgIdle /\ IdleExcept("ag")

SpecAgentic == InitAgentic /\ [][AgNext]_vars

\* C1: with max_iterations >= 2 the non-streaming loop never stops after its
\* first iteration: a returned call has run at least two iterations, and it
\* stopped after iteration k only because k = max_iterations or because
\* k >= 2 and iteration k reported coverage_score >= 95.
C1_MinTwoIterations ==
    (ag_pc = "returned" /\ ag_max >= 2) =>
        /\ ag_return.total_iterations >= 2
        /\ \/ ag_return.total_iterations = ag_max
           \/ /\ ag_return.total_iterations >= 2
              /\ ag_return.final_coverage >= CoverageThreshold

\* the spec's scenario: 96 on iteration 1, 98 on iteration 2, early exit at 2
C1_Witness ==
    /\ ag_pc = "returned"
    /\ ag_max >= 3
    /\ ag_return.total_iterations = 2
    /\ ag_return.iteration_history[1].coverage_score = 96
    /\ ag_return.iteration_history[2].coverage_score = 98

(***************************************************************************)
(* 2. Narrative chunking (chunking_processor.py)                           *)
(***************************************************************************)
MaxLines == 4

\* self.max_tokens_per_chunk
MaxTokensPerChunk == 400

\* _chunk_narrative_text reads nothing of a line but len(line); a line is
\* modelled by its length in characters
LineLengths == {0, 3, 800, 1600, 1604, 2000}

Pages == {1, 2}

\* line_tokens = len(line) // 4
LineTokens(line) == line \div 4

RECURSIVE TokensOf(_)
TokensOf(lines) ==
    IF lines = <<>> THEN 0 ELSE LineTokens(Head(lines)) + TokensOf(Tail(lines))

\* the flush test with the triggering line's tokens forgotten
FlushNeededIgnoringLine(current_tokens, line_tokens, current_chunk) ==
    current_tokens > MaxTokensPerChunk /\ current_chunk # <<>>

\* `if current_tokens + line_tokens > self.max_tokens_per_chunk and current_chunk`
FlushNeeded(current_tokens, line_tokens, current_chunk) ==
    current_tokens + line_tokens > MaxTokensPerChunk /\ current_chunk # <<>>

\* the dict with the tokens of the chunk's characters taken together
MakeChunkTokensOfJoined(page_num, chunk_id, current_chunk, current_tokens) ==
    [page |-> page_num,
     chunk_id |-> <<page_num, chunk_id>>,
     block_type |-> "NARRATIVE",
     text_lines |-> current_chunk,
     token_count |-> LineTokens(SumSeq(current_chunk)),
     line_count |-> Len(current_chunk)]

\* the dict appended to `chunks`; chunk_id f"page_{page_num}_chunk_{chunk_id}"
\* is kept as the pair of numbers it is formatted from
MakeChunk(page_num, chunk_id, current_chunk, current_tokens) ==
    [page |-> page_num,
     chunk_id |-> <<page_num, chunk_id>>,
     block_type |-> "NARRATIVE",
     text_lines |-> current_chunk,
     token_count |-> current_tokens,
     line_count |-> Len(current_chunk)]

\* the for loop of _chunk_narrative_text followed by the trailing flush
RECURSIVE ChunkLoop(_, _, _, _, _, _)
ChunkLoop(rest, page_num, chunks, current_chunk, current_tokens, chunk_id) ==
    IF rest = <<>>
    THEN IF current_chunk # <<>>
           THEN Append(chunks, MakeChunk(page_num, chunk_id, current_chunk,
                                         current_tokens))
           ELSE chunks
    ELSE LET line == Head(rest)
             line_tokens == LineTokens(line)
         IN IF FlushNeeded(current_tokens, line_tokens, current_chunk)
              THEN ChunkLoop(Tail(rest), page_num,
                             Append(chunks, MakeChunk(page_num, chunk_id,
                                                      current_chunk,
                                                      current_tokens)),
                             <<line>>, line_tokens, chunk_id + 1)
              ELSE ChunkLoop(Tail(rest), page_num, chunks,
                             Append(current_chunk, line),
                             current_tokens + line_tokens, chunk_id)

ChunkNarrativeText(text_lines, page_num) ==
    ChunkLoop(text_lines, page_num, <<>>, <<>>, 0, 1)

ChInit ==
    /\ ch_pc = "input"
    /\ ch_lines \in SeqsUpTo(LineLengths, MaxLines)
    /\ ch_page \in Pages
    /\ ch_chunks = <<>>

ChChunk ==
    /\ ch_pc = "input"
    /\ ch_chunks' = ChunkNarrativeText(ch_lines, ch_page)
    /\ ch_pc' = "done"
    /\ UNCHANGED <<ch_lines, ch_page>>
    /\ UNCHANGED notCh

ChNext == ChChunk

InitChunk == ChInit /\ IdleExcept("ch")

SpecChunk == InitChunk /\ [][ChNext]_vars

\* C2: every chunk's token count (the sum of len(line)//4 over its lines) is
\* at most 400, except a chunk made of exactly one line that alone exceeds 400.
C2_ChunkTokenBudget ==
    ch_pc = "done" =>
        \A i \in DOMAIN ch_chunks :
            LET c == ch_chunks[i]
            IN \/ TokensOf(c.text_lines) <= MaxTokensPerChunk
               \/ /\ Len(c.text_lines) = 1
                  /\ LineTokens(c.text_lines[1]) > MaxTokensPerChunk

\* an oversized line in the middle of the page, alone in its chunk, between
\* a chunk filled to exactly the budget and a following chunk
C2_Witness ==
    /\ ch_pc = "done"
    /\ Len(ch_chunks) = 3
    /\ ch_chunks[1].token_count = MaxTokensPerChunk
    /\ Len(ch_chunks[1].text_lines) = 2
    /\ ch_chunks[2].token_count > MaxTokensPerChunk
    /\ Len(ch_chunks[2].text_lines) = 1

(***************************************************************************)
(* 3. Schema validator (schema_validator.py)                               *)
(***************************************************************************)
\* JSON / Python values, tagged with their type.  A string carries its
\* characters; Absent stands for a key the dict does not have.
Absent == [t |-> "absent"]
Null == [t |-> "null"]
JInt(n) == [t |-> "int", v |-> n]
JStr(s) == [t |-> "str", v |-> s]

\* dict.get(key, default)
Get(field, default) == IF field = Absent THEN default ELSE field

DigitChars == <<"0", "1", "2", "3", "4", "5", "6", "7", "8", "9">>

\* str() of a non-negative int
RECURSIVE IntToChars(_)
IntToChars(n) ==
    IF n < 10 THEN <<DigitChars[n + 1]>>
    ELSE Append(IntToChars(n \div 10), DigitChars[(n % 10) + 1])

\* str(x)
PyStr(x) ==
    CASE x.t = "str" -> x.v
      [] x.t = "int" -> IntToChars(x.v)
      [] x.t = "null" -> <<"N", "o", "n", "e">>

\* bool(x): the truth value `not item[field]` tests
Truthy(x) ==
    CASE x.t = "str" -> x.v # <<>>
      [] x.t = "int" -> x.v # 0
      [] x.t = "null" -> FALSE
      [] x.t = "absent" -> FALSE

\* str.strip() for the blank character
RECURSIVE LStrip(_)
LStrip(s) == IF s # <<>> /\ Head(s) = " " THEN LStrip(Tail(s)) ELSE s

RECURSIVE RStrip(_)
RStrip(s) ==
    IF s # <<>> /\ s[Len(s)] = " " THEN RStrip(SubSeq(s, 1, Len(s) - 1)) ELSE s

Strip(s) == RStrip(LStrip(s))

\* `symbol in value` for a one-character symbol
HasChar(value, symbol) == \E i \in DOMAIN value : value[i] = symbol

\* unit names, as the strings the code returns
U_USD == <<"U", "S", "D">>
U_percent == <<"p", "e", "r", "c", "e", "n", "t">>
U_millions == <<"m", "i", "l", "l", "i", "o", "n", "s">>
U_billions == <<"b", "i", "l", "l", "i", "o", "n", "s">>
U_thousands == <<"t", "h", "o", "u", "s", "a", "n", "d", "s">>
U_EUR == <<"E", "U", "R">>
U_GBP == <<"G", "B", "P">>

\* the characters U+20AC (euro sign) and U+00A3 (pound sign) are written
\* "euro" and "pound"
EuroSign == "euro"
PoundSign == "pound"

\* a lookup table that lists the currency signs before the magnitude letters
UnitPatternsCurrencyFirst ==
    << <<"$", U_USD>>, <<EuroSign, U_EUR>>, <<PoundSign, U_GBP>>,
       <<"%", U_percent>>, <<"M", U_millions>>, <<"B", U_billions>>,
       <<"K", U_thousands>> >>

\* unit_patterns, in the insertion order the dict iterates in
UnitPatterns ==
    << <<"$", U_USD>>, <<"%", U_percent>>, <<"M", U_millions>>,
       <<"B", U_billions>>, <<"K", U_thousands>>, <<EuroSign, U_EUR>>,
       <<PoundSign, U_GBP>> >>

\* the for loop of _extract_unit from table entry k on
RECURSIVE ExtractUnitFrom(_, _)
ExtractUnitFrom(value, k) ==
    IF k > Len(UnitPatterns) THEN <<>>
    ELSE IF HasChar(value, UnitPatterns[k][1]) THEN UnitPatterns[k][2]
    ELSE ExtractUnitFrom(value, k + 1)

\* _extract_unit
ExtractUnit(value) == ExtractUnitFrom(Strip(value), 1)

\* the canonical item built for the row at 1-based position row_counter
CanonicalItem(item, row_counter) ==
    [page |-> Get(item.page, JInt(1)),
     section |-> Get(item.source, JStr(<<"U", "n", "k", "n", "o", "w", "n">>)),
     row_id |-> JInt(row_counter),
     column |-> Get(item.field, JStr(<<>>)),
     value |-> JStr(PyStr(Get(item.value, JStr(<<>>)))),
     unit |-> JStr(ExtractUnit(PyStr(Get(item.value, JStr(<<>>))))),
     context |-> Get(item.commentary, JStr(<<>>))]

\* transform_to_canonical
TransformToCanonical(extracted_data) ==
    [k \in DOMAIN extracted_data |-> CanonicalItem(extracted_data[k], k)]

\* the canonical JSON schema (schema.json): page integer, section / column /
\* value string, all four required, column and value non-empty; row_id
\* integer, unit and context string when present
ItemConforms(item) ==
    /\ item.page.t = "int"
    /\ item.section.t = "str"
    /\ item.column.t = "str" /\ item.column.v # <<>>
    /\ item.value.t = "str" /\ item.value.v # <<>>
    /\ item.row_id.t \in {"int", "absent"}
    /\ item.unit.t \in {"str", "absent"}
    /\ item.context.t \in {"str", "absent"}

OptionalFieldsMissing(item) ==
    Cardinality({f \in {"unit", "context", "row_id"} : ~Truthy(item[f])})

RECURSIVE CountMissing(_)
CountMissing(data) ==
    IF data = <<>> THEN 0
    ELSE OptionalFieldsMissing(Head(data)) + CountMissing(Tail(data))

\* validate_data on a list: validate() either passes for the whole list or
\* raises ValidationError, which the handler turns into valid = False
ValidateData(data) ==
    IF \A i \in DOMAIN data : ItemConforms(data[i])
    THEN [valid |-> TRUE, total_items |-> Len(data), valid_items |-> Len(data),
          invalid_items |-> 0, missing_optional_fields |-> CountMissing(data)]
    ELSE [valid |-> FALSE, total_items |-> Len(data), valid_items |-> 0,
          invalid_items |-> Len(data), missing_optional_fields |-> 0]

MaxRows == 2

SvPageVals == {Absent, JInt(1), JStr(<<"1">>)}
SvSourceVals == {JStr(<<"T", "1">>), Null}
SvFieldVals == {JStr(<<"R">>), JStr(<<>>)}
SvValueVals == {JStr(<<"$", "1", "M">>), JInt(25), JStr(<<>>)}
SvCommentaryVals == {Absent, Null}

SvRows == [page : SvPageVals, source : SvSourceVals, field : SvFieldVals,
           value : SvValueVals, commentary : SvCommentaryVals]

SvInit ==
    /\ sv_pc = "input"
    /\ sv_rows \in SeqsUpTo(SvRows, MaxRows)
    /\ sv_canonical = <<>>
    /\ sv_result = [valid |-> FALSE]

SvTransform ==
    /\ sv_pc = "input"
    /\ sv_canonical' = TransformToCanonical(sv_rows)
    /\ sv_pc' = "transformed"
    /\ UNCHANGED <<sv_rows, sv_result>>
    /\ UNCHANGED notSv

SvValidate ==
    /\ sv_pc = "transformed"
    /\ sv_result' = ValidateData(sv_canonical)
    /\ sv_pc' = "validated"
    /\ UNCHANGED <<sv_rows, sv_canonical>>
    /\ UNCHANGED notSv

SvNext == SvTransform \/ SvValidate

InitSchema == SvInit /\ IdleExcept("sv")

SpecSchema == InitSchema /\ [][SvNext]_vars

\* a row with a non-empty field and a non-empty value
HasFieldAndValue(row) == Truthy(row.field) /\ Truthy(row.value)

\* C3: for any rows that all have a non-empty field and a non-empty value,
\* whatever their page / source / commentary keys hold or omit,
\* validate_data on the output of transform_to_canonical reports valid.
C3_RoundTripValid ==
    (sv_pc = "validated" /\ \A i \in DOMAIN sv_rows : HasFieldAndValue(sv_rows[i]))
        => sv_result.valid

(***************************************************************************)
(* 4. Unit extraction (schema_validator.py, _extract_unit)                 *)
(***************************************************************************)
MaxValueLen == 3

UnitAlphabet == {"$", "%", "M", "B", "K", EuroSign, PoundSign, "5", " "}

\* the values of test_unit_extraction
V_115_5M == <<"$", "1", "1", "5", ".", "5", "M">>
V_25pct == <<"2", "5", "%">>
V_50B == <<EuroSign, "5", "0", "B">>
V_100K == <<PoundSign, "1", "0", "0", "K">>
V_NoUnits == <<"N", "o", " ", "u", "n", "i", "t", "s", " ", "h", "e", "r", "e">>

UnitTestValues == {V_115_5M, V_25pct, V_50B, V_100K, V_NoUnits}

UnInit ==
    /\ un_pc = "input"
    /\ un_value \in UnitTestValues \cup SeqsUpTo(UnitAlphabet, MaxValueLen)
    /\ un_unit = <<>>

UnExtract ==
    /\ un_pc = "input"
    /\ un_unit' = ExtractUnit(un_value)
    /\ un_pc' = "done"
    /\ UNCHANGED un_value
    /\ UNCHANGED notUn

UnNext == UnExtract

InitUnit == UnInit /\ IdleExcept("un")

SpecUnit == InitUnit /\ [][UnNext]_vars

\* C4 as stated: "$115.5M" -> "millions", "25%" -> "percent", euro "50B" ->
\* "EUR", pound "100K" -> "GBP", "No units here" -> "".
C4_UnitTableAsStated ==
    un_pc = "done" =>
        /\ un_value = V_115_5M => un_unit = U_millions
        /\ un_value = V_25pct => un_unit = U_percent
        /\ un_value = V_50B => un_unit = U_EUR
        /\ un_value = V_100K => un_unit = U_GBP
        /\ un_value = V_NoUnits => un_unit = <<>>

\* position of the first table entry whose symbol occurs in the stripped
\* value (0 when none occurs)
FirstSymbolIndex(value) ==
    LET hits == {k \in DOMAIN UnitPatterns : HasChar(Strip(value), UnitPatterns[k][1])}
    IN IF hits = {} THEN 0 ELSE CHOOSE k \in hits : \A j \in hits : k <= j

\* C4 amended: _extract_unit returns the unit of the first symbol of the
\* table, in table order ($ % M B K euro pound), that occurs in the value and
\* "" when none occurs: "$115.5M" -> "USD", "25%" -> "percent", euro "50B" ->
\* "billions", pound "100K" -> "thousands", "No units here" -> "".
C4_UnitTable ==
    un_pc = "done" =>
        /\ un_unit = IF FirstSymbolIndex(un_value) = 0 THEN <<>>
                     ELSE UnitPatterns[FirstSymbolIndex(un_value)][2]
        /\ un_value = V_115_5M => un_unit = U_USD
        /\ un_value = V_25pct => un_unit = U_percent
        /\ un_value = V_50B => un_unit = U_billions
        /\ un_value = V_100K => un_unit = U_thousands
        /\ un_value = V_NoUnits => un_unit = <<>>

\* the pound "100K" sample has been extracted: K precedes the pound sign
C4_Witness ==
    /\ un_pc = "done"
    /\ un_value = V_100K
    /\ un_unit = U_thousands

(***************************************************************************)
(* 5. Unit normalization by regular expression (merge_normalize_qa.py)     *)
(***************************************************************************)
Digits == {"0", "1", "2", "3", "4", "5", "6", "7", "8", "9"}

LowerCase == <<"a", "b", "c", "d", "e", "f", "g", "h", "i", "j", "k", "l", "m",
               "n", "o", "p", "q", "r", "s", "t", "u", "v", "w", "x", "y", "z">>

UpperCase == <<"A", "B", "C", "D", "E", "F", "G", "H", "I", "J", "K", "L", "M",
               "N", "O", "P", "Q", "R", "S", "T", "U", "V", "W", "X", "Y", "Z">>

\* str.lower() of one character
LowerChar(c) ==
    IF \E k \in DOMAIN UpperCase : UpperCase[k] = c
    THEN LowerCase[CHOOSE k \in DOMAIN UpperCase : UpperCase[k] = c]
    ELSE c

\* str.lower()
Lower(s) == [i \in DOMAIN s |-> LowerChar(s[i])]

\* \w of the regular expression syntax
IsWordChar(c) == c \in Digits \cup Range(LowerCase) \cup Range(UpperCase) \cup {"_"}

\* number of consecutive characters of class C in s from position p on
RECURSIVE RunLength(_, _, _)
RunLength(s, p, C) ==
    IF p <= Len(s) /\ s[p] \in C THEN 1 + RunLength(s, p + 1, C) ELSE 0

\* the literal lit occurs in s at position p
LiteralAt(s, p, lit) ==
    /\ p + Len(lit) - 1 <= Len(s)
    /\ \A j \in DOMAIN lit : s[p + j - 1] = lit[j]

\* \b between a matched letter and position e
WordBoundaryAt(s, e) == e > Len(s) \/ ~IsWordChar(s[e])

Chars_thousand == <<"t", "h", "o", "u", "s", "a", "n", "d">>
Chars_million == <<"m", "i", "l", "l", "i", "o", "n">>
Chars_billion == <<"b", "i", "l", "l", "i", "o", "n">>
Chars_percent == <<"p", "e", "r", "c", "e", "n", "t">>

\* One entry of unit_normalization_patterns.  Every pattern has the shape
\*   <prefix>(\d+\.?\d*)[\s*]<suffix>[\b]      with replacement \1
Pattern(prefix, spaces, suffix, wordEnd, unit) ==
    [prefix |-> prefix, spaces |-> spaces, suffix |-> suffix,
     wordEnd |-> wordEnd, unit |-> unit]

\* self.unit_normalization_patterns, in the insertion order the dict
\* iterates in
UnitNormalizationPatterns ==
    << Pattern(<<>>, TRUE, Chars_thousand, FALSE, "thousand"),
       Pattern(<<>>, TRUE, Chars_million, FALSE, "million"),
       Pattern(<<>>, TRUE, Chars_billion, FALSE, "billion"),
       Pattern(<<>>, TRUE, <<"k">>, TRUE, "thousand"),
       Pattern(<<>>, TRUE, <<"m">>, TRUE, "million"),
       Pattern(<<>>, TRUE, <<"b">>, TRUE, "billion"),
       Pattern(<<"$">>, TRUE, Chars_million, FALSE, "million USD"),
       Pattern(<<"$">>, TRUE, Chars_billion, FALSE, "billion USD"),
       Pattern(<<"$">>, TRUE, Chars_thousand, FALSE, "thousand USD"),
       Pattern(<<"$">>, TRUE, <<"m">>, TRUE, "million USD"),
       Pattern(<<"$">>, TRUE, <<"b">>, TRUE, "billion USD"),
       Pattern(<<"$">>, TRUE, <<"k">>, TRUE, "thousand USD"),
       Pattern(<<"$">>, FALSE, <<>>, FALSE, "USD"),
       Pattern(<<>>, TRUE, <<"%">>, FALSE, "percent"),
       Pattern(<<>>, TRUE, Chars_percent, FALSE, "percent"),
       Pattern(<<EuroSign>>, FALSE, <<>>, FALSE, "EUR"),
       Pattern(<<PoundSign>>, FALSE, <<>>, FALSE, "GBP") >>

NoMatch == <<0, 0>>

\* [\s*]<suffix>[\b] at position p with k blanks taken, fewer on failure
\* (backtracking); the position after the match, or 0
RECURSIVE MatchSuffix(_, _, _, _)
MatchSuffix(s, p, k, pat) ==
    IF /\ LiteralAt(s, p + k, pat.suffix)
       /\ pat.wordEnd => WordBoundaryAt(s, p + k + Len(pat.suffix))
    THEN p + k + Len(pat.suffix)
    ELSE IF k = 0 THEN 0 ELSE MatchSuffix(s, p, k - 1, pat)

\* \d* at position p with d digits taken, fewer on failure, then the rest;
\* <<end of group 1, end of match>> (both exclusive) or NoMatch
RECURSIVE MatchFraction(_, _, _, _)
MatchFraction(s, p, d, pat) ==
    LET q == p + d
        e == MatchSuffix(s, q, IF pat.spaces THEN RunLength(s, q, {" "}) ELSE 0, pat)
    IN IF e # 0 THEN <<q, e>>
       ELSE IF d = 0 THEN NoMatch ELSE MatchFraction(s, p, d - 1, pat)

\* \.?\d* and the rest at position p: with the dot first, then without
MatchDot(s, p, pat) ==
    IF p <= Len(s) /\ s[p] = "."
    THEN LET withDot == MatchFraction(s, p + 1, RunLength(s, p + 1, Digits), pat)
         IN IF withDot # NoMatch THEN withDot ELSE MatchFraction(s, p, 0, pat)
    ELSE MatchFraction(s, p, RunLength(s, p, Digits), pat)

\* \d+ at position p with d digits taken, fewer (at least one) on failure
RECURSIVE MatchInteger(_, _, _, _)
MatchInteger(s, p, d, pat) ==
    IF d < 1 THEN NoMatch
    ELSE LET r == MatchDot(s, p + d, pat)
         IN IF r # NoMatch THEN r ELSE MatchInteger(s, p, d - 1, pat)

\* the pattern matched at position i: <<end of group 1, end of match>>
MatchAt(s, i, pat) ==
    IF LiteralAt(s, i, pat.prefix)
    THEN MatchInteger(s, i + Len(pat.prefix),
                      RunLength(s, i + Len(pat.prefix), Digits), pat)
    ELSE NoMatch

\* re.search(pattern, s) is not None
Search(s, pat) == \E i \in DOMAIN s : MatchAt(s, i, pat) # NoMatch

\* re.sub(pattern, r'\1', s): every non-overlapping match, leftmost first,
\* is replaced by its group 1
RECURSIVE SubFrom(_, _, _)
SubFrom(s, i, pat) ==
    IF i > Len(s) THEN <<>>
    ELSE LET m == MatchAt(s, i, pat)
         IN IF m # NoMatch
              THEN SubSeq(s, i + Len(pat.prefix), m[1] - 1) \o SubFrom(s, m[2], pat)
              ELSE <<s[i]>> \o SubFrom(s, i + 1, pat)

\* the for loop of normalize_units_regex from table entry k on
RECURSIVE NormalizeFrom(_, _, _)
NormalizeFrom(value, value_lower, k) ==
    IF k > Len(UnitNormalizationPatterns) THEN <<value, "">>
    ELSE IF Search(value_lower, UnitNormalizationPatterns[k])
         THEN <<Strip(SubFrom(value_lower, 1, UnitNormalizationPatterns[k])),
                UnitNormalizationPatterns[k].unit>>
         ELSE NormalizeFrom(value, value_lower, k + 1)

\* normalize_units_regex
NormalizeUnitsRegex(value) == NormalizeFrom(value, Strip(Lower(value)), 1)

\* values assembled as <sign><number><blanks><magnitude><tail>
NuSigns == {<<>>, <<"$">>, <<EuroSign>>}
NuNumbers == {<<>>, <<"1", "1", "5", ".", "5">>, <<"7">>, <<"3", ".">>}
NuBlanks == {<<>>, <<" ">>}
NuMagnitudes == {<<>>, Chars_thousand, Chars_million, Chars_billion,
                 <<"M">>, <<"k">>, <<"b">>, <<"%">>, Chars_percent, <<"m", "b">>}
NuTails == {<<>>, <<" ", "x">>, <<"2">>}

NuValues ==
    {sg \o n \o bl \o mg \o tl :
        sg \in NuSigns, n \in NuNumbers, bl \in NuBlanks, mg \in NuMagnitudes,
        tl \in NuTails}

NuInit ==
    /\ nu_pc = "input"
    /\ nu_value \in NuValues
    /\ nu_out = <<>>

NuNormalize ==
    /\ nu_pc = "input"
    /\ nu_out' = NormalizeUnitsRegex(nu_value)
    /\ nu_pc' = "done"
    /\ UNCHANGED nu_value
    /\ UNCHANGED notNu

NuNext == NuNormalize

InitNormalize == NuInit /\ IdleExcept("nu")

SpecNormalize == InitNormalize /\ [][NuNext]_vars

\* the magnitude words and the unit the claim gives each
DollarMagnitudes ==
    { <<Chars_thousand, "thousand USD">>, <<Chars_million, "million USD">>,
      <<Chars_billion, "billion USD">> }

\* C5: every value "$<n> <magnitude>" with magnitude thousand, million or
\* billion normalizes to value "<n>" and unit "<magnitude> USD"
\* ("$115.5 million" to "115.5" and "million USD").
C5_DollarMagnitude ==
    nu_pc = "done" =>
        \A n \in NuNumbers \ {<<>>}, mu \in DollarMagnitudes :
            nu_value = <<"$">> \o n \o <<" ">> \o mu[1] =>
                nu_out = <<n, mu[2]>>

(***************************************************************************)
(* 6. Phase 5: merge, normalize, dedupe and sort (merge_normalize_qa.py)   *)
(***************************************************************************)
MaxItems == 3

\* an item without the row_id key carries NoRowId
NoRowId == -1

S_Table == <<"T", "a", "b", "l", "e">>
S_KeyValue == <<"K", "e", "y", "V", "a", "l", "u", "e">>
S_Narrative == <<"N", "a", "r", "r", "a", "t", "i", "v", "e">>

Item(page, section, row_id, column, value, unit, context) ==
    [page |-> page, section |-> section, row_id |-> row_id, column |-> column,
     value |-> value, unit |-> unit, context |-> context]

\* `sub in s`
Contains(s, sub) == \E i \in 1..(Len(s) + 1) : LiteralAt(s, i, sub)

\* the substrings whose presence sends a value without a regex unit to the
\* model: ['$', '%', 'million', 'thousand', 'billion', 'k', 'm', 'b']
GptTriggers ==
    { <<"$">>, <<"%">>, Chars_million, Chars_thousand, Chars_billion,
      <<"k">>, <<"m">>, <<"b">> }

\* `not normalized_unit and any(char in original_value.lower() ...)`
NeedsGpt(original_value, normalized_unit) ==
    /\ normalized_unit = ""
    /\ \E trig \in GptTriggers : Contains(Lower(original_value), trig)

\* concatenate_arrays
ConcatenateArrays(extraction_results) ==
    extraction_results.tables_extracted
        \o extraction_results.keyvalues_extracted
        \o extraction_results.narrative_extracted

\* what normalize_units_gpt may return for a value: the value it was given
\* with no unit (empty or unparsable reply, failed call), or the value and
\* unit of the model's JSON reply
GptReplies(value) ==
    {<<value, "">>} \cup {<<v, u>> : v \in {value, <<"7">>}, u \in {"", "million"}}

\* normalize_units_regex over the values of a list of items, worked out
\* once per value
RegexResults(values) == [v \in values |-> NormalizeUnitsRegex(v)]

\* normalize_units for one item: regex is the result of normalize_units_regex
\* for its value, queued tells whether the item is in gpt_tasks, and gpt is
\* the reply applied to a queued item
NormalizeItem(item, regex, queued, gpt) ==
    IF queued
    THEN [item EXCEPT !.value = gpt[1],
                      !.unit = IF gpt[2] # "" THEN gpt[2] ELSE item.unit]
    ELSE [item EXCEPT !.value = regex[1],
                      !.unit = IF regex[2] # "" THEN regex[2] ELSE item.unit]

\* a dedup key that leaves the value out
DedupKeyWithoutValue(item) == <<item.page, item.section, item.column>>

\* dedup_key = (page, section, column, value)
DedupKey(item) == <<item.page, item.section, item.column, item.value>>

\* the first loop of deduplicate_and_sort: first-seen wins
RECURSIVE Deduplicate(_, _, _)
Deduplicate(rest, seen_items, deduplicated_data) ==
    IF rest = <<>> THEN deduplicated_data
    ELSE IF DedupKey(Head(rest)) \in seen_items
         THEN Deduplicate(Tail(rest), seen_items, deduplicated_data)
         ELSE Deduplicate(Tail(rest), seen_items \cup {DedupKey(Head(rest))},
                          Append(deduplicated_data, Head(rest)))

\* code point order of the letters
CharCode(c) ==
    CHOOSE k \in DOMAIN (UpperCase \o LowerCase) : (UpperCase \o LowerCase)[k] = c

\* a < b for strings
RECURSIVE StrLess(_, _)
StrLess(a, b) ==
    IF b = <<>> THEN FALSE
    ELSE IF a = <<>> THEN TRUE
    ELSE IF Head(a) = Head(b) THEN StrLess(Tail(a), Tail(b))
    ELSE CharCode(Head(a)) < CharCode(Head(b))

\* x.get('row_id', 0)
RowIdOf(x) == IF x.row_id = NoRowId THEN 0 ELSE x.row_id

\* key(a) < key(b) for the sort key (page, section, row_id)
SortKeyLess(a, b) ==
    \/ a.page < b.page
    \/ a.page = b.page /\ StrLess(a.section, b.section)
    \/ a.page = b.page /\ a.section = b.section /\ RowIdOf(a) < RowIdOf(b)

\* x put into a sorted list in front of the elements that are not smaller
RECURSIVE InsertSortedBeforeEqual(_, _)
InsertSortedBeforeEqual(sorted, x) ==
    IF sorted = <<>> THEN <<x>>
    ELSE IF ~SortKeyLess(Head(sorted), x) THEN <<x>> \o sorted
    ELSE <<Head(sorted)>> \o InsertSortedBeforeEqual(Tail(sorted), x)

\* x put into a sorted list behind every element that is not greater
RECURSIVE InsertSorted(_, _)
InsertSorted(sorted, x) ==
    IF sorted = <<>> THEN <<x>>
    ELSE IF SortKeyLess(x, Head(sorted)) THEN <<x>> \o sorted
    ELSE <<Head(sorted)>> \o InsertSorted(Tail(sorted), x)

\* sorted(deduplicated_data, key=...): a stable sort
RECURSIVE StableSort(_, _)
StableSort(rest, sorted) ==
    IF rest = <<>> THEN sorted
    ELSE StableSort(Tail(rest), InsertSorted(sorted, Head(rest)))

\* deduplicate_and_sort
DeduplicateAndSort(normalized_data) ==
    StableSort(Deduplicate(normalized_data, {}, <<>>), <<>>)

\* re.search(r'\d', value)
HasDigit(value) == \E i \in DOMAIN value : value[i] \in Digits

\* value.replace(',', '')
WithoutCommas(value) == SelectSeq(value, LAMBDA c : c # ",")

\* an underscore between two digits groups them and is skipped by float()
RECURSIVE DropGroupingFrom(_, _)
DropGroupingFrom(s, i) ==
    IF i > Len(s) THEN <<>>
    ELSE (IF /\ s[i] = "_" /\ 1 < i /\ i < Len(s)
             /\ s[i - 1] \in Digits /\ s[i + 1] \in Digits
          THEN <<>> ELSE <<s[i]>>) \o DropGroupingFrom(s, i + 1)

\* float(text) returns a number (and raises no ValueError): surrounding
\* blanks, a sign, then inf, infinity or nan in any case, or digits with an
\* optional point and an optional exponent
FloatParses(text) ==
    LET s == DropGroupingFrom(Strip(text), 1)
        p0 == IF s # <<>> /\ s[1] \in {"+", "-"} THEN 2 ELSE 1
        int == RunLength(s, p0, Digits)
        p1 == p0 + int
        dot == p1 <= Len(s) /\ s[p1] = "."
        frac == IF dot THEN RunLength(s, p1 + 1, Digits) ELSE 0
        p2 == IF dot THEN p1 + 1 + frac ELSE p1
        exp == p2 <= Len(s) /\ s[p2] \in {"e", "E"}
        p3 == IF exp /\ p2 + 1 <= Len(s) /\ s[p2 + 1] \in {"+", "-"}
              THEN p2 + 2 ELSE p2 + 1
        exp_digits == IF exp THEN RunLength(s, p3, Digits) ELSE 0
        end == IF exp THEN p3 + exp_digits ELSE p2
    IN \/ /\ int + frac > 0
          /\ exp => exp_digits > 0
          /\ end = Len(s) + 1
       \/ Lower(SubSeq(s, p0, Len(s)))
            \in { <<"i", "n", "f">>, <<"n", "a", "n">>,
                  <<"i", "n", "f", "i", "n", "i", "t", "y">> }

\* the four checks, in the order of the checks dict
CheckNames ==
    <<"unit_present", "numeric_parseable", "known_context", "required_fields">>

NumericUnits ==
    {"thousand", "million", "billion", "percent", "USD", "EUR", "GBP"}

known_contexts == {"header", "label", "data", "total", "summary", ""}

\* the units that are empty or blank: `unit and unit.strip()` is falsy
BlankUnits == {"", " "}

EmptyCheck == [passed |-> 0, failed |-> 0, failed_items |-> <<>>]

\* check['passed'] += 1
Passed(check) == [check EXCEPT !.passed = @ + 1]

\* check['failed'] += 1; check['failed_items'].append(entry)
Failed(check, entry) ==
    [check EXCEPT !.failed = @ + 1, !.failed_items = Append(@, entry)]

\* f"Item {i+1} (Page {page}, {section})", i counted from 1 here
ItemId(i, item) == <<i, item.page, item.section>>

\* Check 1 counting only the values with digits
UnitPresentForNumbersOnly(check, item_id, item) ==
    IF HasDigit(item.value)
    THEN IF item.unit \notin BlankUnits
         THEN Passed(check)
         ELSE Failed(check, [item_id |-> item_id, value |-> item.value])
    ELSE check

\* Check 1: unit present for values that hold a digit
UnitPresent(check, item_id, item) ==
    IF HasDigit(item.value)
    THEN IF item.unit \notin BlankUnits
         THEN Passed(check)
         ELSE Failed(check, [item_id |-> item_id, value |-> item.value])
    ELSE Passed(check)

\* Check 2: a value with a numeric unit parses as a float
NumericParseable(check, item_id, item) ==
    IF item.unit \in NumericUnits
    THEN IF FloatParses(WithoutCommas(item.value))
         THEN Passed(check)
         ELSE Failed(check, [item_id |-> item_id, value |-> item.value,
                             unit |-> item.unit])
    ELSE Passed(check)

\* Check 3: known context
KnownContext(check, item_id, item) ==
    IF item.context \in known_contexts
    THEN Passed(check)
    ELSE Failed(check, [item_id |-> item_id, context |-> item.context])

\* [field for field in required_fields if not item.get(field)]
MissingFields(item) ==
    (IF item.page = 0 THEN <<"page">> ELSE <<>>)
        \o (IF item.section = <<>> THEN <<"section">> ELSE <<>>)
        \o (IF item.column = "" THEN <<"column">> ELSE <<>>)
        \o (IF item.value = <<>> THEN <<"value">> ELSE <<>>)

\* Check 4: required fields present
RequiredFields(check, item_id, item) ==
    IF MissingFields(item) = <<>>
    THEN Passed(check)
    ELSE Failed(check, [item_id |-> item_id,
                        missing_fields |-> MissingFields(item)])

\* the loop of run_qa_checks over sorted_data from item i on
RECURSIVE QaLoop(_, _, _)
QaLoop(sorted_data, i, checks) ==
    IF i > Len(sorted_data) THEN checks
    ELSE LET item == sorted_data[i]
             item_id == ItemId(i, item)
         IN QaLoop(sorted_data, i + 1,
                [unit_present |->
                    UnitPresent(checks.unit_present, item_id, item),
                 numeric_parseable |->
                    NumericParseable(checks.numeric_parseable, item_id, item),
                 known_context |->
                    KnownContext(checks.known_context, item_id, item),
                 required_fields |->
                    RequiredFields(checks.required_fields, item_id, item)])

\* run_qa_checks; success_rate, a rounded float worked out from the summary
\* counts, is left out of the summary
RunQaChecks(sorted_data) ==
    LET checks == QaLoop(sorted_data, 1,
                         [name \in Range(CheckNames) |-> EmptyCheck])
        counts(field) == SumSeq([k \in DOMAIN CheckNames |->
                                    checks[CheckNames[k]][field]])
    IN [total_items |-> Len(sorted_data),
        checks |-> checks,
        summary |-> [total_checks |-> counts("passed") + counts("failed"),
                     total_passed |-> counts("passed"),
                     total_failed |-> counts("failed")],
        errors |-> [k \in DOMAIN SelectSeq(CheckNames,
                                   LAMBDA name : checks[name].failed > 0) |->
                      LET name == SelectSeq(CheckNames,
                                   LAMBDA n : checks[n].failed > 0)[k]
                      IN <<name, checks[name].failed>>]]

\* the sample of test_merge_normalize_qa
V_Life360 == <<"L", "i", "f", "e", "3", "6", "0">>
V_115_5_million == <<"$", "1", "1", "5", ".", "5", " ", "m", "i", "l", "l", "i", "o", "n">>
V_35pct == <<"3", "5", "%">>
V_66_9_million == <<"6", "6", ".", "9", " ", "m", "i", "l", "l", "i", "o", "n">>
V_33pct == <<"3", "3", "%">>
V_Sentence ==
    <<"L", "i", "f", "e", "3", "6", "0", " ", "i", "s", " ", "a", " ",
      "l", "e", "a", "d", "i", "n", "g", " ", "f", "a", "m", "i", "l", "y", " ",
      "s", "a", "f", "e", "t", "y", " ", "c", "o", "m", "p", "a", "n", "y", ".">>

SampleExtractionResults ==
    [tables_extracted |->
        << Item(1, S_Table, 1, "Company", V_Life360, "", "header"),
           Item(1, S_Table, 2, "Revenue", V_115_5_million, "", "data"),
           Item(1, S_Table, 3, "Growth", V_35pct, "", "data") >>,
     keyvalues_extracted |->
        << Item(1, S_KeyValue, 1, "Total Users", V_66_9_million, "", ""),
           Item(1, S_KeyValue, 2, "MAU Growth", V_33pct, "", "") >>,
     narrative_extracted |->
        << Item(1, S_Narrative, 1, "text", V_Sentence, "", ""),
           Item(1, S_Table, 1, "Company", V_Life360, "", "header") >>]

V_7_million == <<"7", " ", "m", "i", "l", "l", "i", "o", "n">>
V_7 == <<"7">>
V_dollar_7 == <<"$", "7">>
V_7_mb == <<"7", " ", "m", "b">>
V_na == <<"n", "/", "a">>

\* items that differ from the first one in one field, and one without a
\* column whose value holds no digit and whose context is not a known one
MqItems ==
    { Item(1, S_Table, 1, "Revenue", V_7_million, "", "data"),
      Item(2, S_Table, 1, "Revenue", V_7_million, "", "data"),
      Item(1, S_KeyValue, 1, "Revenue", V_7_million, "", "data"),
      Item(1, S_Table, 2, "Revenue", V_7_million, "", "data"),
      Item(1, S_Table, NoRowId, "Revenue", V_7_million, "", "data"),
      Item(1, S_Table, 1, "Growth", V_7_million, "", "data"),
      Item(1, S_Table, 1, "Revenue", V_7, "", "data"),
      Item(1, S_Table, 1, "Revenue", V_dollar_7, "", "data"),
      Item(1, S_Table, 1, "Revenue", V_7_mb, "", "data"),
      Item(1, S_Table, 1, "", V_na, "", "footnote") }

\* the ways of cutting a list into the three arrays
Splits(items) ==
    { [tables_extracted |-> SubSeq(items, 1, cut[1]),
       keyvalues_extracted |-> SubSeq(items, cut[1] + 1, cut[2]),
       narrative_extracted |-> SubSeq(items, cut[2] + 1, Len(items))] :
        cut \in {c \in (0..Len(items)) \X (0..Len(items)) : c[1] <= c[2]} }

MqInit ==
    /\ mq_pc = "input"
    /\ \/ mq_input = SampleExtractionResults
       \/ \E items \in SeqsUpTo(MqItems, MaxItems) : mq_input \in Splits(items)
    /\ mq_normalized = <<>>
    /\ mq_results = [success |-> FALSE]

\* the values of the sample and of MqItems
MqValues ==
    {V_Life360, V_115_5_million, V_35pct, V_66_9_million, V_33pct, V_Sentence,
     V_7_million, V_7, V_dollar_7, V_7_mb, V_na}

MqRegex == RegexResults(MqValues)

\* the values normalize_units queues in gpt_tasks
MqGptValues == {v \in MqValues : NeedsGpt(v, MqRegex[v][2])}

\* process_merge_normalize_qa
MqProcess ==
    /\ mq_pc = "input"
    /\ LET combined_data == ConcatenateArrays(mq_input)
           gpt_tasks == {i \in DOMAIN combined_data :
                            combined_data[i].value \in MqGptValues}
       IN \E gpt \in [gpt_tasks -> UNION {GptReplies(v) : v \in MqGptValues}] :
            /\ \A i \in gpt_tasks : gpt[i] \in GptReplies(combined_data[i].value)
            /\ LET normalized_data ==
                     [i \in DOMAIN combined_data |->
                        NormalizeItem(combined_data[i],
                                      MqRegex[combined_data[i].value],
                                      i \in gpt_tasks,
                                      IF i \in gpt_tasks THEN gpt[i] ELSE <<>>)]
                   final_data == DeduplicateAndSort(normalized_data)
               IN /\ mq_normalized' = normalized_data
                  /\ mq_results' =
                       [success |-> TRUE,
                        processing_stats |->
                          [original_items |-> Len(combined_data),
                           normalized_items |-> Len(normalized_data),
                           final_items |-> Len(final_data),
                           duplicates_removed |->
                             Len(normalized_data) - Len(final_data)],
                        final_data |-> final_data,
                        qa_results |-> RunQaChecks(final_data)]
    /\ mq_pc' = "done"
    /\ UNCHANGED mq_input
    /\ UNCHANGED notMq

MqNext == MqProcess

InitMerge == MqInit /\ IdleExcept("mq")

SpecMerge == InitMerge /\ [][MqNext]_vars

\* the (page, section, column, normalized value) of a normalized item
MergeKey(item) == <<item.page, item.section, item.column, item.value>>

\* the normalized items that repeat the key of an earlier one
RepeatedItems(normalized_data) ==
    {i \in DOMAIN normalized_data :
        \E j \in 1..(i - 1) : MergeKey(normalized_data[j]) = MergeKey(normalized_data[i])}

\* C7: process_merge_normalize_qa reports normalized_items = original_items
\* and final_items = original_items - duplicates_removed, duplicates_removed
\* being the number of concatenated items whose (page, section, column,
\* normalized value) repeats that of an earlier item; 1 for the sample.
C7_MergeStats ==
    mq_pc = "done" =>
        LET stats == mq_results.processing_stats
        IN /\ stats.original_items = Len(ConcatenateArrays(mq_input))
           /\ stats.normalized_items = stats.original_items
           /\ stats.duplicates_removed = Cardinality(RepeatedItems(mq_normalized))
           /\ stats.final_items = stats.original_items - stats.duplicates_removed
           /\ stats.final_items = Len(mq_results.final_data)
           /\ mq_input = SampleExtractionResults => stats.duplicates_removed = 1

\* two different values ("7 million", "7") with one normalized value: the
\* second is removed as a duplicate
C7_Witness ==
    /\ mq_pc = "done"
    /\ Len(ConcatenateArrays(mq_input)) = 2
    /\ ConcatenateArrays(mq_input)[1].value = V_7_million
    /\ ConcatenateArrays(mq_input)[2].value = V_7
    /\ mq_results.processing_stats.duplicates_removed = 1
    /\ mq_results.processing_stats.final_items = 1

\* the sample of test_merge_normalize_qa has been processed
C7_SampleProcessed ==
    /\ mq_pc = "done"
    /\ mq_input = SampleExtractionResults

(***************************************************************************)
(* 7. Phase 4: LLM structured extraction (llm_structured_extractor.py)     *)
(***************************************************************************)
\* largest number of batch items in a payload, all three batches together
MaxBatchItems == 2

\* canonical items the model may emit
ExItems == {"x", "y"}

ExItemLists == {<<>>, <<"x">>, <<"x", "y">>}

\* What the completion call of one batch item comes to:
\*   raises       the call or the stream raises
\*   empty        the collected content is blank
\*   unparsable   json.loads raises
\*   data         an object with a "data" array
\*   data_other   an object whose "data" is not an array
\*   list         a bare array
\*   object       any other non-empty value
\*   falsy        any other empty value ({} or 0)
Replies ==
    {[kind |-> k] : k \in {"raises", "empty", "unparsable", "data_other", "falsy"}}
        \cup {[kind |-> "data", items |-> l] : l \in ExItemLists}
        \cup {[kind |-> "list", items |-> l] : l \in ExItemLists}
        \cup {[kind |-> "object", item |-> x] : x \in ExItems}

\* values a process_single_* coroutine returns
PyList(l) == [t |-> "list", v |-> l]
PyOther == [t |-> "other"]

\* process_single_table / process_single_kv / process_single_narrative
ProcessSingle(reply) ==
    CASE reply.kind \in {"raises", "empty", "unparsable", "falsy"} -> PyList(<<>>)
      [] reply.kind = "data" -> PyList(reply.items)
      [] reply.kind = "data_other" -> PyOther
      [] reply.kind = "list" -> PyList(reply.items)
      [] reply.kind = "object" -> PyList(<<reply.item>>)

\* the flatten loop: the lists among the gathered results, in task order
RECURSIVE FlattenResults(_)
FlattenResults(results) ==
    IF results = <<>> THEN <<>>
    ELSE (IF Head(results).t = "list" THEN Head(results).v ELSE <<>>)
            \o FlattenResults(Tail(results))

\* extract_tables_async / extract_keyvalues_async / extract_narrative_async:
\* asyncio.gather returns the results in task order
ExtractAsync(replies) ==
    FlattenResults([i \in DOMAIN replies |-> ProcessSingle(replies[i])])

\* the key a category's result is stored under, f"{category}_extracted"
ResultKey(category) ==
    CASE category = "tables" -> "tables_extracted"
      [] category = "kvs" -> "kvs_extracted"
      [] category = "narrative" -> "narrative_extracted"

\* the "Map results back to categories" loop over the tasks that were created
RECURSIVE MapResults(_, _, _)
MapResults(tasks, replies, structured_results) ==
    IF tasks = <<>> THEN structured_results
    ELSE LET category == Head(tasks)
             result == ExtractAsync(replies[category])
         IN MapResults(Tail(tasks), replies,
                [structured_results EXCEPT
                    ![ResultKey(category)] = result,
                    !.total_extracted_items = @ + Len(result)])

\* the batch items of a payload are named by batch and position
BatchItems(prefix, n) == [i \in 1..n |-> <<prefix, i>>]

ExPayloads ==
    {[tables |-> BatchItems("table", a), kvs |-> BatchItems("kv", b),
      text_chunks |-> BatchItems("chunk", c)] :
        a \in 0..MaxBatchItems, b \in 0..MaxBatchItems, c \in 0..MaxBatchItems}

ExInit ==
    /\ ex_pc = "input"
    /\ ex_payload \in {p \in ExPayloads :
          Len(p.tables) + Len(p.kvs) + Len(p.text_chunks) <= MaxBatchItems}
    /\ ex_replies = [tables |-> <<>>, kvs |-> <<>>, narrative |-> <<>>]
    /\ ex_results = [status |-> "none"]

\* process_structured_extraction; "kvs_extracted" is NoKey until the loop
\* stores under that key
NoKey == [t |-> "absent"]

ExProcess ==
    /\ ex_pc = "input"
    /\ \E rt \in [DOMAIN ex_payload.tables -> Replies],
          rk \in [DOMAIN ex_payload.kvs -> Replies],
          rn \in [DOMAIN ex_payload.text_chunks -> Replies] :
         LET replies == [tables |-> rt, kvs |-> rk, narrative |-> rn]
             tasks == (IF ex_payload.tables # <<>> THEN <<"tables">> ELSE <<>>)
                        \o (IF ex_payload.kvs # <<>> THEN <<"kvs">> ELSE <<>>)
                        \o (IF ex_payload.text_chunks # <<>>
                              THEN <<"narrative">> ELSE <<>>)
             mapped == MapResults(tasks, replies,
                          [status |-> "returned",
                           tables_extracted |-> <<>>,
                           keyvalues_extracted |-> <<>>,
                           narrative_extracted |-> <<>>,
                           kvs_extracted |-> NoKey,
                           total_extracted_items |-> 0,
                           combined_extracted_data |-> <<>>,
                           processing_stats |->
                             [tables_processed |-> Len(ex_payload.tables),
                              kvs_processed |-> Len(ex_payload.kvs),
                              narrative_chunks_processed |->
                                 Len(ex_payload.text_chunks),
                              extraction_errors |-> 0]])
         IN /\ ex_replies' = replies
            /\ ex_results' =
                 [mapped EXCEPT !.combined_extracted_data =
                     mapped.tables_extracted \o mapped.keyvalues_extracted
                        \o mapped.narrative_extracted]
    /\ ex_pc' = "done"
    /\ UNCHANGED ex_payload
    /\ UNCHANGED notEx

ExNext == ExProcess

InitExtract == ExInit /\ IdleExcept("ex")

SpecExtract == InitExtract /\ [][ExNext]_vars

\* the items the replies of one batch hold, in batch order
RECURSIVE ItemsOfReplies(_)
ItemsOfReplies(replies) ==
    IF replies = <<>> THEN <<>>
    ELSE LET r == Head(replies)
         IN (CASE r.kind \in {"data", "list"} -> r.items
               [] r.kind = "object" -> <<r.item>>
               [] OTHER -> <<>>) \o ItemsOfReplies(Tail(replies))

\* C6: the result holds the items extracted from the tables, key-value and
\* narrative batches in tables_extracted, keyvalues_extracted and
\* narrative_extracted, combined_extracted_data is their concatenation in
\* that order and total_extracted_items is its length.
C6_ResultArrays ==
    ex_pc = "done" =>
        /\ ex_results.tables_extracted = ItemsOfReplies(ex_replies.tables)
        /\ ex_results.keyvalues_extracted = ItemsOfReplies(ex_replies.kvs)
        /\ ex_results.narrative_extracted = ItemsOfReplies(ex_replies.narrative)
        /\ ex_results.combined_extracted_data =
              ex_results.tables_extracted \o ex_results.keyvalues_extracted
                 \o ex_results.narrative_extracted
        /\ ex_results.total_extracted_items =
              Len(ex_results.combined_extracted_data)

(***************************************************************************)
(* 8. Deduplication by similarity (deduplication_utils.py)                 *)
(***************************************************************************)
MaxDedupRows == 3

\* field and value strings; "a_b" with "c" and "a" with "b_c" give one key
DdFields == {<<"a">>, <<"a", "_", "b">>}
DdValues == {<<"c">>, <<"b", "_", "c">>}

DdRows == [field : DdFields, value : DdValues]

\* is_similar is difflib's ratio against a threshold; the model lets it
\* answer anything for an ordered pair of strings, the same answer each time
DdSimilarities ==
    [field : [DdFields \X DdFields -> BOOLEAN],
     value : [DdValues \X DdValues -> BOOLEAN]]

\* key = f"{field}_{value}"
DedupKeyOf(item) == item.field \o <<"_">> \o item.value

\* the inner loop: some kept item has a similar field and a similar value
IsDuplicate(item, deduplicated, sim) ==
    \E j \in DOMAIN deduplicated :
        /\ sim.field[<<item.field, deduplicated[j].field>>]
        /\ sim.value[<<item.value, deduplicated[j].value>>]

\* the kept item put in front of the list
KeepItemInFront(deduplicated, item) == <<item>> \o deduplicated

\* deduplicated.append(item)
KeepItem(deduplicated, item) == Append(deduplicated, item)

\* the for loop of deduplicate_by_semantic_similarity
RECURSIVE DedupLoop(_, _, _, _)
DedupLoop(rest, seen_data, deduplicated, sim) ==
    IF rest = <<>> THEN deduplicated
    ELSE LET item == Head(rest)
             key == DedupKeyOf(item)
         IN IF key \in seen_data
              THEN DedupLoop(Tail(rest), seen_data, deduplicated, sim)
            ELSE IF IsDuplicate(item, deduplicated, sim)
              THEN DedupLoop(Tail(rest), seen_data, deduplicated, sim)
            ELSE DedupLoop(Tail(rest), seen_data \cup {key},
                           KeepItem(deduplicated, item), sim)

\* deduplicate_by_semantic_similarity
DeduplicateBySemanticSimilarity(data, sim) ==
    IF data = <<>> THEN data ELSE DedupLoop(data, {}, <<>>, sim)

DdInit ==
    /\ dd_pc = "input"
    /\ dd_data \in SeqsUpTo(DdRows, MaxDedupRows)
    /\ dd_sim \in DdSimilarities
    /\ dd_once = <<>>
    /\ dd_twice = <<>>

DdFirstCall ==
    /\ dd_pc = "input"
    /\ dd_once' = DeduplicateBySemanticSimilarity(dd_data, dd_sim)
    /\ dd_pc' = "once"
    /\ UNCHANGED <<dd_data, dd_sim, dd_twice>>
    /\ UNCHANGED notDd

DdSecondCall ==
    /\ dd_pc = "once"
    /\ dd_twice' = DeduplicateBySemanticSimilarity(dd_once, dd_sim)
    /\ dd_pc' = "twice"
    /\ UNCHANGED <<dd_data, dd_sim, dd_once>>
    /\ UNCHANGED notDd

DdNext == DdFirstCall \/ DdSecondCall

InitDedup == DdInit /\ IdleExcept("dd")

SpecDedup == InitDedup /\ [][DdNext]_vars

\* C8: deduplicate_by_semantic_similarity applied to its own output returns
\* that output unchanged, element for element and in the same order,
\* whatever the similarity test answers.
C8_DedupIdempotent == dd_pc = "twice" => dd_twice = dd_once

\* the first call removed one row and kept two or more, and the second call
\* has run on what was kept
C8_Witness ==
    /\ dd_pc = "twice"
    /\ Len(dd_data) = 3
    /\ Len(dd_once) = 2
    /\ dd_once[1] # dd_once[2]

(***************************************************************************)
(* 9. Text storage (storage_manager.py)                                    *)
(***************************************************************************)
MaxCalls == 3

\* texts handed to store_extracted_text
T_Empty == <<>>
T_abc == <<"a", "b", "c">>
T_a_b == <<"a", " ", "b">>
T_Padded == <<" ", "a", "b", " ", " ", "c", " ">>

Texts == {T_Empty, T_abc, T_a_b, T_Padded}

\* hashlib.md5(text.encode()).hexdigest()[:8] of these texts
Md5Prefix(text) ==
    CASE text = T_Empty -> <<"d", "4", "1", "d", "8", "c", "d", "9">>
      [] text = T_abc -> <<"9", "0", "0", "1", "5", "0", "9", "8">>
      [] text = T_a_b -> <<"0", "c", "c", "9", "c", "d", "4", "d">>
      [] text = T_Padded -> <<"4", "7", "8", "4", "5", "1", "c", "c">>

\* readings of datetime.now(): strftime("%Y%m%d") and strftime("%H%M%S")
Clock ==
    { [date |-> <<"2", "0", "2", "5", "0", "1", "0", "1">>, time |-> <<"1", "2", "0", "0", "0", "0">>],
      [date |-> <<"2", "0", "2", "5", "0", "1", "0", "1">>, time |-> <<"1", "2", "0", "0", "0", "1">>],
      [date |-> <<"2", "0", "2", "5", "0", "1", "0", "2">>, time |-> <<"1", "2", "0", "0", "0", "0">>] }

Underscore == <<"_">>
JsonExt == <<".", "j", "s", "o", "n">>
ResultsInfix == <<"_", "r", "e", "s", "u", "l", "t", "s", "_">>

Whitespace == {" ", "\t", "\n"}

\* str.split() with no argument: the maximal runs of non-whitespace
RECURSIVE SplitFrom(_, _, _)
SplitFrom(text, i, word) ==
    IF i > Len(text)
      THEN (IF word = <<>> THEN <<>> ELSE <<word>>)
    ELSE IF text[i] \in Whitespace
      THEN (IF word = <<>> THEN <<>> ELSE <<word>>)
           \o SplitFrom(text, i + 1, <<>>)
    ELSE SplitFrom(text, i + 1, Append(word, text[i]))

Split(text) == SplitFrom(text, 1, <<>>)

\* len(text.split()) if text else 0
WordCount(text) == IF text = <<>> THEN 0 ELSE Len(Split(text))

\* the id made of the timestamp alone
GenerateTextIdWithoutHash(text, now) == now.date \o Underscore \o now.time

\* generate_text_id: f"{timestamp}_{text_hash[:8]}"
GenerateTextId(text, now) ==
    now.date \o Underscore \o now.time \o Underscore \o Md5Prefix(text)

\* open(path, 'w') and json.dump: the file is created or replaced
WriteFile(files, name, content) ==
    {f \in files : f.name # name} \cup {[name |-> name, content |-> content]}

NoRecord == [found |-> FALSE]

\* retrieve_text: the content of f"{text_id}.json", None when there is none
RetrieveText(files, text_id) ==
    LET hits == {f \in files : f.name = text_id \o JsonExt}
    IN IF hits = {} THEN NoRecord ELSE (CHOOSE f \in hits : TRUE).content

\* original file names: None or "f.pdf"
StFilenames == {Null, JStr(<<"f", ".", "p", "d", "f">>)}

\* results dicts, with and without metadata.processing_mode
R_Agentic == [metadata |-> [processing_mode |-> "agentic"]]
R_Plain == [summary |-> "done"]
StResults == {R_Agentic, R_Plain}

\* results.get("metadata", {}).get("processing_mode", "unknown")
ProcessingMode(results) ==
    IF "metadata" \in DOMAIN results
         /\ "processing_mode" \in DOMAIN results.metadata
      THEN results.metadata.processing_mode
      ELSE "unknown"

\* text_id arguments of store_processing_results: ids handed out before,
\* the empty string, a bare date, a date and a time
StTextIdArgs ==
    {s.id : s \in st_stored}
        \cup {<<>>}
        \cup {c.date : c \in Clock}
        \cup {c.date \o Underscore \o c.time : c \in Clock}

StInit ==
    /\ st_files = {}
    /\ st_stored = {}
    /\ st_calls = 0
    /\ st_results_calls = <<>>

\* store_extracted_text(text, filename) at clock reading now
StoreExtractedText ==
    /\ st_calls < MaxCalls
    /\ \E text \in Texts, filename \in StFilenames, now \in Clock :
          LET text_id == GenerateTextId(text, now)
              storage_data ==
                  [text_id |-> text_id,
                   extracted_text |-> text,
                   original_filename |-> filename,
                   extraction_timestamp |-> now,
                   text_length |-> Len(text),
                   word_count |-> WordCount(text)]
          IN /\ st_files' = WriteFile(st_files, text_id \o JsonExt, storage_data)
             /\ st_stored' = st_stored \cup
                    {[id |-> text_id, text |-> text, filename |-> filename]}
    /\ st_calls' = st_calls + 1
    /\ UNCHANGED st_results_calls
    /\ UNCHANGED notSt

\* store_processing_results(text_id, results) at clock reading now
StoreProcessingResults ==
    /\ st_calls < MaxCalls
    /\ \E text_id \in StTextIdArgs, results \in StResults, now \in Clock :
          LET results_id == text_id \o ResultsInfix \o now.time
              results_data ==
                  [results_id |-> results_id,
                   text_id |-> text_id,
                   processing_results |-> results,
                   processing_timestamp |-> now,
                   processing_mode |-> ProcessingMode(results)]
          IN /\ st_files' = WriteFile(st_files, results_id \o JsonExt, results_data)
             /\ st_results_calls' =
                  IF text_id \in DOMAIN st_results_calls
                    THEN [st_results_calls EXCEPT ![text_id] = @ + 1]
                    ELSE st_results_calls @@ (text_id :> 1)
    /\ st_calls' = st_calls + 1
    /\ UNCHANGED st_stored
    /\ UNCHANGED notSt

StNext == StoreExtractedText \/ StoreProcessingResults

InitStore == StInit /\ IdleExcept("st")

SpecStore == InitStore /\ [][StNext]_vars

\* the number of whitespace-separated words: positions where a word starts
NumWords(text) ==
    Cardinality({i \in DOMAIN text :
        /\ text[i] \notin Whitespace
        /\ (i = 1 \/ text[i - 1] \in Whitespace)})

\* C9: for every id returned by store_extracted_text(t, f), retrieve_text(id)
\* returns a record with extracted_text = t, text_length = len(t) and
\* word_count = the number of whitespace-separated words of t, also after
\* any later store_extracted_text / store_processing_results calls (distinct
\* texts having distinct md5 prefixes).
C9_StorageRoundTrip ==
    \A s \in st_stored :
        LET r == RetrieveText(st_files, s.id)
        IN /\ r # NoRecord
           /\ r.extracted_text = s.text
           /\ r.text_length = Len(s.text)
           /\ r.word_count = NumWords(s.text)

\* two texts were stored in the same second and a results file was written
\* for the id of one of them
C9_Witness ==
    \E s1, s2 \in st_stored :
        /\ s1.text # s2.text
        /\ SubSeq(s1.id, 1, 15) = SubSeq(s2.id, 1, 15)
        /\ \E f \in st_files :
              /\ "results_id" \in DOMAIN f.content
              /\ f.content.text_id = s1.id

(***************************************************************************)
(* 10. Staged asynchronous extraction (textract_processor.py)              *)
(***************************************************************************)
MaxPolls == 2
MaxPages == 3

\* the Blocks of one results page
TxPageBlocks == {<<>>, <<"b1">>, <<"b2", "b3">>}

\* the results of a job: one page or more, every page but the last carrying
\* a NextToken
TxResults == SeqsUpTo(TxPageBlocks, MaxPages) \ {<<>>}

TxInit ==
    /\ tx_pc = "put_object"
    /\ tx_result \in TxResults
    /\ tx_staged = FALSE
    /\ tx_log = <<>>
    /\ tx_polls = 0
    /\ tx_status = "none"
    /\ tx_next_token = 0
    /\ tx_pages = <<>>

\* the outer except clause: the exception is raised again, nothing else
TxRaise ==
    /\ tx_pc' = "raised"
    /\ UNCHANGED <<tx_result, tx_staged, tx_log, tx_polls, tx_status,
                   tx_next_token, tx_pages>>

\* s3_client.put_object: the object is staged, or the call raises
TxPutObject ==
    /\ tx_pc = "put_object"
    /\ \/ /\ tx_staged' = TRUE
          /\ tx_log' = Append(tx_log, "put_object")
          /\ tx_pc' = "start_document_analysis"
          /\ UNCHANGED <<tx_result, tx_polls, tx_status, tx_next_token,
                         tx_pages>>
       \/ TxRaise
    /\ UNCHANGED notTx

\* textract_client.start_document_analysis: a job id, or the call raises
TxStartDocumentAnalysis ==
    /\ tx_pc = "start_document_analysis"
    /\ \/ /\ tx_log' = Append(tx_log, "start_document_analysis")
          /\ tx_pc' = "poll"
          /\ UNCHANGED <<tx_result, tx_staged, tx_polls, tx_status,
                         tx_next_token, tx_pages>>
       \/ TxRaise
    /\ UNCHANGED notTx

\* one round of the wait loop, with the test on FAILED that follows it
TxPoll ==
    /\ tx_pc = "poll"
    /\ \/ /\ tx_polls < MaxPolls
          /\ tx_status' = "IN_PROGRESS"
          /\ tx_polls' = tx_polls + 1
          /\ tx_log' = Append(tx_log, "poll")
          /\ UNCHANGED <<tx_pc, tx_result, tx_staged, tx_next_token, tx_pages>>
       \/ /\ tx_status' = "SUCCEEDED"
          /\ tx_log' = Append(tx_log, "poll")
          /\ tx_pc' = "page"
          /\ UNCHANGED <<tx_result, tx_staged, tx_polls, tx_next_token,
                         tx_pages>>
       \/ /\ tx_status' = "FAILED"
          /\ tx_log' = Append(tx_log, "poll")
          /\ tx_pc' = "raised"
          /\ UNCHANGED <<tx_result, tx_staged, tx_polls, tx_next_token,
                         tx_pages>>
       \/ TxRaise
    /\ UNCHANGED notTx

\* the blocks of the page just fetched take the place of the earlier ones
ExtendReplacing(pages, blocks) == blocks

\* pages.extend(response['Blocks'])
Extend(pages, blocks) == pages \o blocks

\* one round of the paging loop
TxPage ==
    /\ tx_pc = "page"
    /\ \/ LET i == IF tx_next_token = 0 THEN 1 ELSE tx_next_token
          IN /\ tx_pages' = Extend(tx_pages, tx_result[i])
             /\ tx_log' = Append(tx_log, "page")
             /\ IF i < Len(tx_result)
                  THEN /\ tx_next_token' = i + 1
                       /\ UNCHANGED tx_pc
                  ELSE /\ tx_next_token' = 0
                       /\ tx_pc' = "parse"
             /\ UNCHANGED <<tx_result, tx_staged, tx_polls, tx_status>>
       \/ TxRaise
    /\ UNCHANGED notTx

\* _parse_textract_blocks: structured data, or a block without 'Id' or
\* 'BlockType' raises
TxParse ==
    /\ tx_pc = "parse"
    /\ \/ /\ tx_pc' = "delete_object"
          /\ UNCHANGED <<tx_result, tx_staged, tx_log, tx_polls, tx_status,
                         tx_next_token, tx_pages>>
       \/ TxRaise
    /\ UNCHANGED notTx

\* s3_client.delete_object in its own try: a failure is only printed
TxDeleteObject ==
    /\ tx_pc = "delete_object"
    /\ tx_log' = Append(tx_log, "delete_object")
    /\ tx_staged' \in {FALSE, tx_staged}
    /\ tx_pc' = "returned"
    /\ UNCHANGED <<tx_result, tx_polls, tx_status, tx_next_token, tx_pages>>
    /\ UNCHANGED notTx

TxNext ==
    \/ TxPutObject
    \/ TxStartDocumentAnalysis
    \/ TxPoll
    \/ TxPage
    \/ TxParse
    \/ TxDeleteObject

InitTextract == TxInit /\ IdleExcept("tx")

SpecTextract == InitTextract /\ [][TxNext]_vars

\* C10: once extract_text_from_pdf_bytes has returned or raised, a delete
\* of the staged object has been issued on every path that uploaded it.
C10_StagedObjectDeleted ==
    (tx_pc \in {"returned", "raised"} /\ "put_object" \in Range(tx_log))
        => "delete_object" \in Range(tx_log)

(***************************************************************************)
(* 11. HTTP handlers (app.py)                                              *)
(***************************************************************************)
PyDict(keys) == [t |-> "dict", keys |-> keys]

F_Empty == <<>>
F_a_pdf == <<"a", ".", "p", "d", "f">>
F_A_PDF == <<"A", ".", "P", "D", "F">>
F_a_txt == <<"a", ".", "t", "x", "t">>

\* a part of request.files: absent, or an upload with its filename
ApFileParts == {Absent} \cup {JStr(f) : f \in {F_Empty, F_a_pdf, F_A_PDF, F_a_txt}}

K_data == <<"d", "a", "t", "a">>

\* request.json: None, objects with and without the key 'data', and the
\* JSON values that are no objects
ApBodies ==
    { Null, PyDict({}), PyDict({K_data}), PyDict({<<"x">>}),
      JInt(0), JInt(5), JStr(K_data), JStr(<<"x">>),
      PyList(<<>>), PyList(<<K_data>>) }

ApRequests == [pdf : ApFileParts, file : ApFileParts, json : ApBodies]

\* truth value of a Python object
PyTruthy(x) ==
    CASE x.t = "dict" -> x.keys # {}
      [] x.t = "list" -> x.v # <<>>
      [] OTHER -> Truthy(x)

\* key in x: membership, substring test on a str, TypeError on a number
PyIn(key, x) ==
    CASE x.t = "dict" -> IF key \in x.keys THEN "True" ELSE "False"
      [] x.t = "list" -> IF key \in Range(x.v) THEN "True" ELSE "False"
      [] x.t = "str" -> IF Contains(x.v, key) THEN "True" ELSE "False"
      [] OTHER -> "TypeError"

\* str.endswith
EndsWith(s, suffix) ==
    /\ Len(s) >= Len(suffix)
    /\ SubSeq(s, Len(s) - Len(suffix) + 1, Len(s)) = suffix

PdfExt == <<".", "p", "d", "f">>

\* jsonify({'error': ...}), status
ErrorResponse(status) == [status |-> status, body |-> "error"]

\* jsonify of the handler's result, status 200
SuccessResponse == [status |-> 200, body |-> "success"]

\* an exception raised outside the handler's try statement
Escaped == [status |-> 0, body |-> "exception"]

\* what the extraction / processing / export component does when called
ApOutcomes == {"returns", "raises"}

ApInit ==
    /\ ap_pc = "request"
    /\ ap_request \in ApRequests
    /\ ap_route = "none"
    /\ ap_invoked = FALSE
    /\ ap_outcome = "none"
    /\ ap_response = [status |-> 0, body |-> "none"]

\* the try statement around the component call
ApTry(outcome) ==
    /\ ap_invoked' = TRUE
    /\ ap_outcome' = outcome
    /\ ap_response' = IF outcome = "raises" THEN ErrorResponse(500)
                      ELSE SuccessResponse

\* a return before the try statement
ApReject(response) ==
    /\ ap_invoked' = FALSE
    /\ ap_outcome' = "none"
    /\ ap_response' = response

\* extract(): POST /extract
ApExtract ==
    /\ ap_pc = "request"
    /\ ap_pc' = "done"
    /\ ap_route' = "/extract"
    /\ IF ap_request.pdf = Absent THEN ApReject(ErrorResponse(400))
       ELSE IF ap_request.pdf.v = F_Empty THEN ApReject(ErrorResponse(400))
       ELSE \E outcome \in ApOutcomes : ApTry(outcome)
    /\ UNCHANGED ap_request
    /\ UNCHANGED notAp

\* extract_structured(): POST /extract_structured
ApExtractStructured ==
    /\ ap_pc = "request"
    /\ ap_pc' = "done"
    /\ ap_route' = "/extract_structured"
    /\ IF ap_request.file = Absent THEN ApReject(ErrorResponse(400))
       ELSE IF ap_request.file.v = F_Empty THEN ApReject(ErrorResponse(400))
       ELSE IF ~EndsWith(Lower(ap_request.file.v), PdfExt)
         THEN ApReject(ErrorResponse(400))
       ELSE \E outcome \in ApOutcomes : ApTry(outcome)
    /\ UNCHANGED ap_request
    /\ UNCHANGED notAp

\* process(): POST /process; the rows are built inside the try statement
ApProcess ==
    /\ ap_pc = "request"
    /\ ap_pc' = "done"
    /\ ap_route' = "/process"
    /\ IF ~PyTruthy(ap_request.json) THEN ApReject(ErrorResponse(400))
       ELSE \E outcome \in ApOutcomes : ApTry(outcome)
    /\ UNCHANGED ap_request
    /\ UNCHANGED notAp

\* export_pdf(): POST /export/pdf; data['data'] is read inside the try
\* statement and raises when data is no dict
ApExportPdf ==
    /\ ap_pc = "request"
    /\ ap_pc' = "done"
    /\ ap_route' = "/export/pdf"
    /\ IF ~PyTruthy(ap_request.json) THEN ApReject(ErrorResponse(400))
       ELSE IF PyIn(K_data, ap_request.json) = "TypeError"
         THEN ApReject(Escaped)
       ELSE IF PyIn(K_data, ap_request.json) = "False"
         THEN ApReject(ErrorResponse(400))
       ELSE IF ap_request.json.t # "dict"
         THEN /\ ap_invoked' = FALSE
              /\ ap_outcome' = "none"
              /\ ap_response' = ErrorResponse(500)
       ELSE \E outcome \in ApOutcomes : ApTry(outcome)
    /\ UNCHANGED ap_request
    /\ UNCHANGED notAp

ApNext == ApExtract \/ ApExtractStructured \/ ApProcess \/ ApExportPdf

InitApp == ApInit /\ IdleExcept("ap")

SpecApp == InitApp /\ [][ApNext]_vars

\* the request lacks the part the handler expects
LacksExpectedPart ==
    CASE ap_route = "/extract" ->
            ap_request.pdf = Absent \/ ap_request.pdf = JStr(F_Empty)
      [] ap_route = "/extract_structured" ->
            ap_request.file = Absent \/ ap_request.file = JStr(F_Empty)
      [] ap_route = "/process" -> ap_request.json = Null
      [] ap_route = "/export/pdf" ->
            \/ ap_request.json = Null
            \/ ap_request.json.t = "dict" /\ K_data \notin ap_request.json.keys
      [] OTHER -> FALSE

\* C11: a request lacking the expected part is answered 400 with an error
\* body and no component is invoked; a component that raises is answered
\* 500 with an error body; no exception escapes a handler and a success
\* body is returned only when the component returned.
C11_HandlerErrors ==
    ap_pc = "done" =>
        /\ LacksExpectedPart =>
              ap_response = ErrorResponse(400) /\ ~ap_invoked
        /\ ap_outcome = "raises" => ap_response = ErrorResponse(500)
        /\ ap_response # Escaped
        /\ ap_response = SuccessResponse => ap_outcome = "returns"

(***************************************************************************)
(* 12. Failure of a step in the non-streaming loop                         *)
(***************************************************************************)
\* C12: when analyze, tabulate or verify raises in iteration k of
\* process_with_iterations, the call does not raise: it returns a result
\* whose iteration_history holds the k-1 completed iterations and whose
\* total_iterations is k-1.
C12_StepFailureReturnsPartial ==
    ag_pc = "raised" =>
        /\ ag_return.status = "returned"
        /\ ag_return.iteration_history = ag_results
        /\ ag_return.total_iterations = ag_iteration

(***************************************************************************)
(* 13. Streaming agentic loop (agentic_processor_streaming.py)             *)
(***************************************************************************)
MaxStreamIterations == 3

\* an event of the stream: its "type", its "step" and "iteration" keys
\* ("none" and 0 when the event has none) and whether it carries "result"
\* or "error"
Event(type, step, iteration, carries) ==
    [type |-> type, step |-> step, iteration |-> iteration, carries |-> carries]

\* what a step's model call comes to: it raises (or its content is no
\* JSON), it returns {}, or it returns a non-empty object
SgAnalysisOutcomes == {"fails", "empty", "full"}

\* tabulation: raises, {}, an object without "data", objects with "data"
SgTabulationOutcomes == {"fails", "empty", "no_data", "t1", "t2"}

\* verification: raises, {}, or an object whose coverage_score is missing,
\* a number, a string or null
SgScores == {Absent, JInt(0), JInt(94), JInt(95), JInt(98), JStr(<<"9", "5">>), Null}
SgVerificationOutcomes ==
    {[kind |-> "fails"], [kind |-> "empty"]}
        \cup {[kind |-> "dict", coverage_score |-> s] : s \in SgScores}

\* the two events of a step generator: its first yield, then step_complete
\* with the result or step_error with the message
StepEvents(first_type, step, failed) ==
    << Event(first_type, step, 0, "none"),
       IF failed THEN Event("step_error", step, 0, "error")
                 ELSE Event("step_complete", step, 0, "result") >>

\* verification.get("coverage_score", 0) if verification else 0
SgCoverage(verification) ==
    IF verification.kind = "dict"
      THEN Get(verification.coverage_score, JInt(0))
      ELSE JInt(0)

SgInit ==
    /\ sg_pc = "call"
    /\ sg_max \in 0..MaxStreamIterations
    /\ sg_iteration = 0
    /\ sg_events = <<>>
    /\ sg_results = <<>>
    /\ sg_table = "none"
    /\ sg_final = <<>>

\* entry of process_with_streaming up to the for statement
SgStart ==
    /\ sg_pc = "call"
    /\ sg_events' = <<Event("processing_start", "none", 0, "none")>>
    /\ sg_pc' = "loop"
    /\ UNCHANGED <<sg_max, sg_iteration, sg_results, sg_table, sg_final>>
    /\ UNCHANGED notSg

\* head of the loop body
SgIterationStart ==
    /\ sg_pc = "loop"
    /\ sg_iteration < sg_max
    /\ sg_events' = Append(sg_events,
                           Event("iteration_start", "none", sg_iteration + 1, "none"))
    /\ sg_pc' = "analysis"
    /\ UNCHANGED <<sg_max, sg_iteration, sg_results, sg_table, sg_final>>
    /\ UNCHANGED notSg

\* step 1: the events of analyze_text_data_streaming are passed on, analysis
\* is the result of step_complete; `if not analysis: continue`
SgAnalysis ==
    /\ sg_pc = "analysis"
    /\ \E outcome \in SgAnalysisOutcomes :
          /\ sg_events' = sg_events \o
                 StepEvents("iteration_start", "analysis", outcome = "fails")
          /\ IF outcome = "full"
               THEN sg_pc' = "tabulation" /\ UNCHANGED sg_iteration
               ELSE sg_pc' = "loop" /\ sg_iteration' = sg_iteration + 1
    /\ UNCHANGED <<sg_max, sg_results, sg_table, sg_final>>
    /\ UNCHANGED notSg

\* step 2: create_tabulation_streaming; `if not tabulation_result: continue`
SgTabulation ==
    /\ sg_pc = "tabulation"
    /\ \E outcome \in SgTabulationOutcomes :
          /\ sg_events' = sg_events \o
                 StepEvents("step_start", "tabulation", outcome = "fails")
          /\ IF outcome \in {"fails", "empty"}
               THEN /\ sg_pc' = "loop"
                    /\ sg_iteration' = sg_iteration + 1
                    /\ UNCHANGED sg_table
               ELSE /\ sg_pc' = "verification"
                    /\ sg_table' = IF outcome = "no_data" THEN "none" ELSE outcome
                    /\ UNCHANGED sg_iteration
    /\ UNCHANGED <<sg_max, sg_results, sg_final>>
    /\ UNCHANGED notSg

\* step 3 and the rest of the loop body: verify_against_text_streaming,
\* iteration_data, iteration_complete, iteration_coverage and the test
\* `coverage >= 95 and iteration > 0`, which raises TypeError when the
\* score is no number
SgVerification ==
    /\ sg_pc = "verification"
    /\ \E outcome \in SgVerificationOutcomes :
          LET coverage == SgCoverage(outcome)
              iteration_data == [iteration |-> sg_iteration + 1,
                                 coverage_score |-> coverage]
              events == sg_events
                  \o StepEvents("step_start", "verification", outcome.kind = "fails")
                  \o << Event("iteration_complete", "none", sg_iteration + 1, "none"),
                        Event("iteration_coverage", "none", sg_iteration + 1, "none") >>
          IN /\ sg_results' = Append(sg_results, iteration_data)
             /\ IF coverage.t # "int"
                  THEN /\ sg_events' = events
                       /\ sg_pc' = "raised"
                       /\ UNCHANGED sg_iteration
                ELSE IF ShouldStop(coverage.v, sg_iteration)
                  THEN /\ sg_events' = Append(events,
                              Event("coverage_achieved", "none", 0, "none"))
                       /\ sg_pc' = "break"
                       /\ UNCHANGED sg_iteration
                ELSE /\ sg_events' = events
                     /\ sg_pc' = "loop"
                     /\ sg_iteration' = sg_iteration + 1
    /\ UNCHANGED <<sg_max, sg_table, sg_final>>
    /\ UNCHANGED notSg

\* after the loop: final_result and processing_complete
SgComplete ==
    /\ \/ sg_pc = "break"
       \/ sg_pc = "loop" /\ sg_iteration >= sg_max
    /\ sg_final' = [final_tabulation |-> sg_table,
                    iteration_history |-> sg_results,
                    total_iterations |-> Len(sg_results),
                    final_coverage |-> IF sg_results # <<>>
                                         THEN Last(sg_results).coverage_score
                                         ELSE JInt(0)]
    /\ sg_events' = Append(sg_events,
                           Event("processing_complete", "none", 0, "result"))
    /\ sg_pc' = "done"
    /\ UNCHANGED <<sg_max, sg_iteration, sg_results, sg_table>>
    /\ UNCHANGED notSg

SgNext ==
    \/ SgStart
    \/ SgIterationStart
    \/ SgAnalysis
    \/ SgTabulation
    \/ SgVerification
    \/ SgComplete

InitStream == SgInit /\ IdleExcept("sg")

SpecStream == InitStream /\ [][SgNext]_vars

\* the event that follows a failed step when the loop goes on with the
\* rest of the iteration
NextAfter(step) ==
    CASE step = "analysis" -> [type |-> "step_start", step |-> "tabulation"]
      [] step = "tabulation" -> [type |-> "step_start", step |-> "verification"]
      [] step = "verification" -> [type |-> "iteration_complete", step |-> "none"]

\* C13: a failed step gives a step_error event that carries the fallback
\* result, and the next event is that of the following step of the same
\* iteration (for verification, the iteration_complete event): no later
\* step is skipped.
C13_StepErrorContinues ==
    \A i \in DOMAIN sg_events :
        sg_events[i].type = "step_error" =>
            /\ sg_events[i].carries = "result"
            /\ i < Len(sg_events) =>
                  /\ sg_events[i + 1].type = NextAfter(sg_events[i].step).type
                  /\ sg_events[i + 1].step = NextAfter(sg_events[i].step).step

\* the positions of sg_events holding an event of the given type
EventsOfType(type) == {i \in DOMAIN sg_events : sg_events[i].type = type}

\* C19: every step is bracketed (its step_complete or step_error comes
\* right after a step_start naming the same step, and every step_start is
\* followed by it), and iteration_start is emitted by the loop only, once
\* per iteration.
C19_StepsBracketed ==
    /\ \A i \in EventsOfType("step_complete") \cup EventsOfType("step_error") :
          /\ i > 1
          /\ sg_events[i - 1].type = "step_start"
          /\ sg_events[i - 1].step = sg_events[i].step
    /\ \A i \in EventsOfType("step_start") :
          i < Len(sg_events) =>
              /\ sg_events[i + 1].type \in {"step_complete", "step_error"}
              /\ sg_events[i + 1].step = sg_events[i].step
    /\ \A i \in EventsOfType("iteration_start") :
          /\ sg_events[i].step = "none"
          /\ \A j \in EventsOfType("iteration_start") :
                sg_events[j].iteration = sg_events[i].iteration => j = i

\* C20: the stream of a call that has ended starts with the only
\* processing_start and ends with the only processing_complete; the loop
\* announces at most max_iterations iterations, and total_iterations is the
\* number of iteration_complete events and the length of iteration_history.
C20_StreamShape ==
    sg_pc \in {"done", "raised"} =>
        /\ EventsOfType("processing_start") = {1}
        /\ EventsOfType("processing_complete") = {Len(sg_events)}
        /\ Cardinality({i \in EventsOfType("iteration_start") :
                            sg_events[i].step = "none"}) <= sg_max
        /\ sg_final.total_iterations = Cardinality(EventsOfType("iteration_complete"))
        /\ sg_final.total_iterations = Len(sg_final.iteration_history)

(***************************************************************************)
(* 14. Phase 4: empty and unparsable responses                             *)
(***************************************************************************)
\* number of batch items whose response was empty or could not be parsed
RECURSIVE BadReplies(_)
BadReplies(replies) ==
    IF replies = <<>> THEN 0
    ELSE (IF Head(replies).kind \in {"empty", "unparsable"} THEN 1 ELSE 0)
            + BadReplies(Tail(replies))

\* C14: a batch item whose response is empty or unparsable contributes no
\* item, its siblings are still extracted and returned, and
\* processing_stats.extraction_errors counts every such item.
C14_ErrorsCounted ==
    ex_pc = "done" =>
        /\ ex_results.tables_extracted = ItemsOfReplies(ex_replies.tables)
        /\ ex_results.narrative_extracted = ItemsOfReplies(ex_replies.narrative)
        /\ ex_results.processing_stats.extraction_errors =
              BadReplies(ex_replies.tables) + BadReplies(ex_replies.kvs)
                 + BadReplies(ex_replies.narrative)

(***************************************************************************)
(* 15. Concurrent fan-out (structured_llm_processor.py and the per-item    *)
(*     tasks of llm_structured_extractor.py)                               *)
(***************************************************************************)
MaxTables == 2
MaxChunks == 1

\* "structured": process_structured_data_with_llm_async over tables, the
\* key-value pairs and the chunks of document_text;
\* "phase4": extract_tables_async over a batch of tables
LlInputs ==
    {[mode |-> "structured", tables |-> t, key_values |-> k, chunks |-> c] :
        t \in 0..MaxTables, k \in 0..1, c \in 0..MaxChunks}
      \cup {[mode |-> "phase4", tables |-> t, key_values |-> 0, chunks |-> 0] :
              t \in 1..(MaxTables + 1)}

\* the coroutines handed to asyncio.gather, in the order they are created
LlTasks(input) ==
    [i \in 1..input.tables |-> <<"table", i>>]
        \o (IF input.key_values > 0 THEN << <<"kv", 1>> >> ELSE <<>>)
        \o [j \in 1..input.chunks |-> <<"chunk", j>>]

\* what a unit's coroutine meets: the model call returns content ("ok"),
\* the model call raises ("fails"), or building the prompt raises before
\* the try statement ("escapes")
LlOutcomes == {"ok", "fails", "escapes"}

\* responses of a Phase 4 table task
LlReplies ==
    {[kind |-> "raises"], [kind |-> "unparsable"],
     [kind |-> "data", items |-> <<"x">>],
     [kind |-> "list", items |-> <<"y", "x">>]}

ErrorPayload == [error |-> "message"]

\* process_table_data / process_key_value_data / process_text_chunk: the
\* value the coroutine returns, or the exception it ends with
UnitResult(unit, outcome) ==
    LET payload == IF outcome = "ok" THEN [data |-> unit] ELSE ErrorPayload
    IN CASE outcome = "escapes" -> [exception |-> "message"]
         [] unit[1] = "table" -> [structured_table |-> payload, original_rows |-> unit]
         [] unit[1] = "kv" -> [structured_key_values |-> payload, original_pairs |-> unit]
         [] unit[1] = "chunk" -> [extracted_facts |-> payload, original_text |-> unit]

LlPending == [pending |-> TRUE]

\* the results in the order the tasks finished
GatherInCompletionOrder(completed, order) ==
    [i \in DOMAIN order |-> completed[order[i]]]

\* asyncio.gather(*tasks, return_exceptions=True): results by task position
Gather(completed, order) == [i \in DOMAIN completed |-> completed[i]]

\* isinstance(result, Exception): the result is replaced by an error dict
OrError(result) ==
    IF "exception" \in DOMAIN result THEN ErrorPayload ELSE result

\* the result is kept only when it is no error
AppendResultUnlessError(list, result) ==
    IF result = ErrorPayload THEN list ELSE Append(list, result)

\* results[...].append(result)
AppendResult(list, result) == Append(list, result)

\* the "Organize results" loops over completed_tasks[task_index]
RECURSIVE OrganizeFrom(_, _, _, _)
OrganizeFrom(completed_tasks, task_index, count, list) ==
    IF count = 0 THEN list
    ELSE OrganizeFrom(completed_tasks, task_index + 1, count - 1,
                      AppendResult(list, OrError(completed_tasks[task_index])))

\* the data points process_commentary_matching collects: the units whose
\* payload is no error, tables first, then key-values, then text chunks
DataPoints(results) ==
    LET tbl == SelectSeq(results.processed_tables,
                   LAMBDA r : "structured_table" \in DOMAIN r
                                 /\ r.structured_table # ErrorPayload)
        kv == IF "structured_key_values" \in DOMAIN results.processed_key_values
                   /\ results.processed_key_values.structured_key_values # ErrorPayload
                THEN <<results.processed_key_values>> ELSE <<>>
        txt == SelectSeq(results.processed_document_text,
                   LAMBDA r : "extracted_facts" \in DOMAIN r
                                 /\ r.extracted_facts # ErrorPayload)
    IN tbl \o kv \o txt

\* process_structured_data_with_llm_async from the gather on
OrganizeResults(input, completed_tasks) ==
    LET tables == OrganizeFrom(completed_tasks, 1, input.tables, <<>>)
        kv_index == input.tables + 1
        kv == IF input.key_values > 0 THEN OrError(completed_tasks[kv_index])
              ELSE <<>>
        text_index == IF input.key_values > 0 THEN kv_index + 1 ELSE kv_index
        text == OrganizeFrom(completed_tasks, text_index, input.chunks, <<>>)
        results == [processed_tables |-> tables,
                    processed_key_values |-> kv,
                    processed_document_text |-> text]
    IN [processed_tables |-> tables,
        processed_key_values |-> kv,
        processed_document_text |-> text,
        enhanced_data_with_commentary |-> DataPoints(results)]

LlInit ==
    /\ ll_pc = "running"
    /\ ll_input \in LlInputs
    /\ ll_outcomes = <<>>
    /\ ll_completed = [i \in DOMAIN LlTasks(ll_input) |-> LlPending]
    /\ ll_order = <<>>
    /\ ll_results = <<>>

\* one of the awaited coroutines finishes
LlTaskCompletes ==
    /\ ll_pc = "running"
    /\ \E i \in DOMAIN ll_completed :
          /\ ll_completed[i] = LlPending
          /\ \E outcome \in IF ll_input.mode = "structured"
                              THEN LlOutcomes ELSE LlReplies :
                /\ ll_completed' =
                     [ll_completed EXCEPT ![i] =
                        IF ll_input.mode = "structured"
                          THEN UnitResult(LlTasks(ll_input)[i], outcome)
                          ELSE ProcessSingle(outcome)]
                /\ ll_outcomes' = ll_outcomes @@ (i :> outcome)
          /\ ll_order' = Append(ll_order, i)
    /\ UNCHANGED <<ll_pc, ll_input, ll_results>>
    /\ UNCHANGED notLl

\* the gather returns when every task has finished; the rest of the
\* function runs
LlGather ==
    /\ ll_pc = "running"
    /\ \A i \in DOMAIN ll_completed : ll_completed[i] # LlPending
    /\ LET completed_tasks == Gather(ll_completed, ll_order)
       IN ll_results' =
            IF ll_input.mode = "structured"
              THEN OrganizeResults(ll_input, completed_tasks)
              ELSE [all_results |-> FlattenResults(completed_tasks)]
    /\ ll_pc' = "done"
    /\ UNCHANGED <<ll_input, ll_outcomes, ll_completed, ll_order>>
    /\ UNCHANGED notLl

LlNext == LlTaskCompletes \/ LlGather

InitFanOut == LlInit /\ IdleExcept("ll")

SpecFanOut == InitFanOut /\ [][LlNext]_vars

\* the unit behind an organized result
UnitOf(result) ==
    CASE "original_rows" \in DOMAIN result -> result.original_rows
      [] "original_pairs" \in DOMAIN result -> result.original_pairs
      [] "original_text" \in DOMAIN result -> result.original_text
      [] OTHER -> <<"none", 0>>

\* C15: whatever the order in which the tasks finish, processed_tables[i]
\* is the result of table i, processed_key_values that of the key-value
\* task and processed_document_text[j] that of chunk j; in Phase 4 the
\* flattened array holds the items of the batch items in batch order.
C15_ResultsByTaskIndex ==
    ll_pc = "done" =>
        IF ll_input.mode = "structured"
          THEN /\ \A i \in 1..ll_input.tables :
                     ll_results.processed_tables[i] =
                        OrError(UnitResult(<<"table", i>>, ll_outcomes[i]))
               /\ ll_input.key_values > 0 =>
                     ll_results.processed_key_values =
                        OrError(UnitResult(<<"kv", 1>>,
                                           ll_outcomes[ll_input.tables + 1]))
               /\ \A j \in 1..ll_input.chunks :
                     ll_results.processed_document_text[j] =
                        OrError(UnitResult(<<"chunk", j>>,
                            ll_outcomes[ll_input.tables + ll_input.key_values + j]))
          ELSE ll_results.all_results =
                  ItemsOfReplies([i \in 1..ll_input.tables |-> ll_outcomes[i]])

\* the last task created finished first, with a table, the key-value task
\* and a chunk among the tasks and distinct results
C15_Witness ==
    /\ ll_pc = "done"
    /\ ll_input.mode = "structured"
    /\ ll_input.tables > 0 /\ ll_input.key_values > 0 /\ ll_input.chunks > 0
    /\ ll_order[1] = Len(ll_order)
    /\ \A i \in DOMAIN ll_outcomes : ll_outcomes[i] = "ok"

StartsWith(s, prefix) ==
    Len(s) >= Len(prefix) /\ SubSeq(s, 1, Len(prefix)) = prefix

\* get_processing_history: the records of the files named
\* f"{text_id}_results_*.json" (the sort by processing_timestamp orders
\* them and leaves their number alone)
GetProcessingHistory(files, text_id) ==
    {f.content : f \in {g \in files :
        /\ StartsWith(g.name, text_id \o ResultsInfix)
        /\ EndsWith(g.name, JsonExt)}}

\* C17: no store_processing_results call overwrites the record of an
\* earlier call: after n calls for a text_id, get_processing_history
\* returns n records for it.
C17_HistoryKeepsEveryCall ==
    \A text_id \in DOMAIN st_results_calls :
        Cardinality(GetProcessingHistory(st_files, text_id))
            = st_results_calls[text_id]


(***************************************************************************)
(* 18. QA checks (merge_normalize_qa.py)                                   *)
(***************************************************************************)
\* C18: for the final list of N items, each of the four checks of
\* run_qa_checks has passed + failed = N and failed = len(failed_items),
\* summary.total_checks = 4 * N and total_passed + total_failed =
\* total_checks; process_merge_normalize_qa returns success = true with
\* final_data as deduplicate_and_sort left it, however many checks fail.
C18_QaCountsEveryItem ==
    mq_pc = "done" =>
        LET qa == mq_results.qa_results
            N == Len(mq_results.final_data)
        IN /\ qa.total_items = N
           /\ \A name \in Range(CheckNames) :
                 /\ qa.checks[name].passed + qa.checks[name].failed = N
                 /\ qa.checks[name].failed = Len(qa.checks[name].failed_items)
           /\ qa.summary.total_checks = Len(CheckNames) * N
           /\ qa.summary.total_passed + qa.summary.total_failed
                 = qa.summary.total_checks
           /\ mq_results.success = TRUE
           /\ mq_results.final_data = DeduplicateAndSort(mq_normalized)

\* a run in which every check fails for some item, some check passes for an
\* item whose value holds no digit, and the pipeline still succeeds
C18_Witness ==
    /\ mq_pc = "done"
    /\ mq_results.success = TRUE
    /\ \A name \in Range(CheckNames) :
          mq_results.qa_results.checks[name].failed > 0
    /\ \E i \in DOMAIN mq_results.final_data :
          ~HasDigit(mq_results.final_data[i].value)
    /\ mq_results.qa_results.summary.total_passed > 0


(***************************************************************************)
(* 21. Order and termination of the staged extraction                      *)
(*     (textract_processor.py)                                             *)
(***************************************************************************)
\* the job is polled until it reports a final status, every remote call
\* returns or raises, and every enabled step is eventually taken
SpecTextractLive == InitTextract /\ [][TxNext]_vars /\ WF_vars(TxNext)

\* rank of a remote operation in upload, start job, poll, page, delete
TxRank(op) ==
    CASE op = "put_object" -> 1
      [] op = "start_document_analysis" -> 2
      [] op = "poll" -> 3
      [] op = "page" -> 4
      [] op = "delete_object" -> 5

\* the operations of the log that are op
TxCount(op) == Len(SelectSeq(tx_log, LAMBDA x : x = op))

\* the blocks of every page, in page order
RECURSIVE TxAllBlocks(_)
TxAllBlocks(result) ==
    IF result = <<>> THEN <<>> ELSE Head(result) \o TxAllBlocks(Tail(result))

\* upload, start job, polls, pages, delete: in that order, each of the
\* single operations once at most and none without the ones before it
TxOrdered ==
    /\ \A i \in 1..(Len(tx_log) - 1) : TxRank(tx_log[i]) <= TxRank(tx_log[i + 1])
    /\ \A op \in {"put_object", "start_document_analysis", "delete_object"} :
          TxCount(op) <= 1
    /\ \A i \in DOMAIN tx_log :
          TxRank(tx_log[i]) > 1 =>
              \E j \in 1..(i - 1) : TxRank(tx_log[j]) = TxRank(tx_log[i]) - 1
                                      \/ tx_log[j] = tx_log[i]

\* on SUCCEEDED every page has been fetched once, in page order, when the
\* blocks are parsed
TxCollected ==
    tx_pc \in {"parse", "delete_object", "returned"} =>
        /\ tx_status = "SUCCEEDED"
        /\ TxCount("page") = Len(tx_result)
        /\ tx_pages = TxAllBlocks(tx_result)

\* on FAILED the call raises and no page is fetched
TxFailedRaises ==
    tx_status = "FAILED" =>
        /\ tx_pc = "raised"
        /\ TxCount("page") = 0
        /\ tx_pages = <<>>

\* the wait loop is left only with SUCCEEDED or FAILED, or by a poll call
\* that raises
TxPollExit ==
    (tx_pc = "poll" /\ tx_pc' # "poll") =>
        \/ tx_status' \in {"SUCCEEDED", "FAILED"}
        \/ tx_pc' = "raised" /\ UNCHANGED tx_status

MaxCompletionCalls == 3

\* response.usage of a completion: None, or the token counts
CtUsages ==
    {Null, [prompt_tokens |-> 12, completion_tokens |-> 5],
           [prompt_tokens |-> 0, completion_tokens |-> 3]}

\* what chat.completions.create does: it raises, or returns a response
CtResponses == {[raises |-> TRUE]} \cup {[raises |-> FALSE, usage |-> u] : u \in CtUsages}

\* CostTracker.add_usage; total_cost, a float sum, is not part of the state
AddUsage(tracker, input_tokens, output_tokens) ==
    [total_input_tokens |-> tracker.total_input_tokens + input_tokens,
     total_output_tokens |-> tracker.total_output_tokens + output_tokens,
     api_calls |-> tracker.api_calls + 1]

\* CostTracker.get_summary, without the cost fields
GetSummary(tracker) ==
    [total_input_tokens |-> tracker.total_input_tokens,
     total_output_tokens |-> tracker.total_output_tokens,
     total_tokens |-> tracker.total_input_tokens + tracker.total_output_tokens,
     api_calls |-> tracker.api_calls]

\* cost_tracker = CostTracker()
CtInit ==
    /\ ct_tracker = [total_input_tokens |-> 0, total_output_tokens |-> 0,
                     api_calls |-> 0]
    /\ ct_calls = <<>>

\* `if hasattr(response, 'usage') and response.usage: cost_tracker.add_usage(...)`
TrackUsage(tracker, response) ==
    IF ~response.raises /\ response.usage # Null
    THEN AddUsage(tracker, response.usage.prompt_tokens,
                  response.usage.completion_tokens)
    ELSE tracker

\* process_table_data: the response's usage is not read
CtProcessTableData ==
    /\ Len(ct_calls) < MaxCompletionCalls
    /\ \E response \in CtResponses :
          ct_calls' = Append(ct_calls, [fn |-> "process_table_data",
                                        response |-> response])
    /\ UNCHANGED ct_tracker
    /\ UNCHANGED notCt

\* process_key_value_data
CtProcessKeyValueData ==
    /\ Len(ct_calls) < MaxCompletionCalls
    /\ \E response \in CtResponses :
          /\ ct_calls' = Append(ct_calls, [fn |-> "process_key_value_data",
                                           response |-> response])
          /\ ct_tracker' = TrackUsage(ct_tracker, response)
    /\ UNCHANGED notCt

\* process_text_chunk
CtProcessTextChunk ==
    /\ Len(ct_calls) < MaxCompletionCalls
    /\ \E response \in CtResponses :
          /\ ct_calls' = Append(ct_calls, [fn |-> "process_text_chunk",
                                           response |-> response])
          /\ ct_tracker' = TrackUsage(ct_tracker, response)
    /\ UNCHANGED notCt

\* match_commentary_to_data: the response's usage is not read
CtMatchCommentaryToData ==
    /\ Len(ct_calls) < MaxCompletionCalls
    /\ \E response \in CtResponses :
          ct_calls' = Append(ct_calls, [fn |-> "match_commentary_to_data",
                                        response |-> response])
    /\ UNCHANGED ct_tracker
    /\ UNCHANGED notCt

CtNext ==
    \/ CtProcessTableData
    \/ CtProcessKeyValueData
    \/ CtProcessTextChunk
    \/ CtMatchCommentaryToData

InitCost == CtInit /\ IdleExcept("ct")

SpecCost == InitCost /\ [][CtNext]_vars

\* the completion calls that returned usage information
CtWithUsage ==
    SelectSeq(ct_calls, LAMBDA c : ~c.response.raises /\ c.response.usage # Null)

\* C22: after any sequence of completion calls of process_table_data,
\* process_key_value_data, process_text_chunk and match_commentary_to_data,
\* api_calls is the number of calls that returned usage information, the
\* token totals are the sums of their prompt and completion token counts,
\* and get_summary().total_tokens is the sum of the two totals.
C22_EveryUsageRecorded ==
    /\ ct_tracker.api_calls = Len(CtWithUsage)
    /\ ct_tracker.total_input_tokens =
         SumSeq([i \in DOMAIN CtWithUsage |-> CtWithUsage[i].response.usage.prompt_tokens])
    /\ ct_tracker.total_output_tokens =
         SumSeq([i \in DOMAIN CtWithUsage |-> CtWithUsage[i].response.usage.completion_tokens])
    /\ GetSummary(ct_tracker).total_tokens =
         ct_tracker.total_input_tokens + ct_tracker.total_output_tokens


(***************************************************************************)
(* 23. Splitting a paragraph at structured data (textract_processor.py)    *)
(***************************************************************************)
MaxParagraphTokens == 2

\* the paragraph "Revenue grew 12% in Q1 2024 following strong demand."
P_RevenueGrew ==
    <<"R", "e", "v", "e", "n", "u", "e", " ", "g", "r", "e", "w", " ", "1",
      "2", "%", " ", "i", "n", " ", "Q", "1", " ", "2", "0", "2", "4", " ",
      "f", "o", "l", "l", "o", "w", "i", "n", "g", " ", "s", "t", "r", "o",
      "n", "g", " ", "d", "e", "m", "a", "n", "d", ".">>
\* pieces of paragraph text
Tok_RevenueGrew ==
    <<"R", "e", "v", "e", "n", "u", "e", " ", "g", "r", "e", "w">>
Tok_12pct ==
    <<"1", "2", "%">>
Tok_growth ==
    <<"g", "r", "o", "w", "t", "h">>
Tok_MAU ==
    <<"M", "A", "U", ":", " ", "7", "9", ".", "6", " ", "m", "i", "l", "l",
      "i", "o", "n">>
Tok_users ==
    <<"u", "s", "e", "r", "s", ".">>
Tok_5_million ==
    <<"$", "5", " ", "m", "i", "l", "l", "i", "o", "n">>
Tok_Q1 ==
    <<"i", "n", " ", "Q", "1", " ", "2", "0", "2", "4">>
SpTokens ==
    {Tok_RevenueGrew, Tok_12pct, Tok_growth, Tok_MAU,
     Tok_users, Tok_5_million, Tok_Q1}

\* the pieces joined by single blanks
RECURSIVE JoinWithBlank(_)
JoinWithBlank(pieces) ==
    IF pieces = <<>> THEN <<>>
    ELSE IF Len(pieces) = 1 THEN pieces[1]
    ELSE pieces[1] \o <<" ">> \o JoinWithBlank(Tail(pieces))

\* the paragraphs handed to _split_paragraph_at_structured_data; their only
\* whitespace is the blank
SpTexts ==
    {P_RevenueGrew} \cup {JoinWithBlank(p) : p \in SeqsUpTo(SpTokens, MaxParagraphTokens)}

Letters == Range(LowerCase) \cup Range(UpperCase)

\* text[start:end], positions counted from 0
Slice(text, start, end) == SubSeq(text, start + 1, end)

\* number of consecutive characters other than c in s from position p on
RECURSIVE RunLengthNot(_, _, _)
RunLengthNot(s, p, c) ==
    IF p <= Len(s) /\ s[p] # c THEN 1 + RunLengthNot(s, p + 1, c) ELSE 0

\* (?:w1|w2|...) under re.IGNORECASE at position p of s: the position after
\* the word, 0 when none of the words is there
AltEnd(s, p, words) ==
    IF \E w \in words : LiteralAt(Lower(s), p, w)
    THEN p + Len(CHOOSE w \in words : LiteralAt(Lower(s), p, w))
    ELSE 0

\* \s* then [class]+ from position p of s: the position after the run, 0
\* when the run is empty
DataEnd(s, p, class) ==
    LET r == p + RunLength(s, p, Whitespace)
        d == RunLength(s, r, class)
    IN IF d > 0 THEN r + d ELSE 0

Magnitudes == {Chars_million, Chars_billion, Chars_thousand}

Changes ==
    { <<"g", "r", "o", "w", "t", "h">>, <<"i", "n", "c", "r", "e", "a", "s", "e">>,
      <<"d", "e", "c", "r", "e", "a", "s", "e">>, <<"c", "h", "a", "n", "g", "e">> }

Metrics ==
    { <<"r", "e", "v", "e", "n", "u", "e">>, <<"p", "r", "o", "f", "i", "t">>,
      <<"l", "o", "s", "s">>, <<"i", "n", "c", "o", "m", "e">>,
      <<"e", "b", "i", "t", "d", "a">>, <<"m", "a", "u">>, <<"a", "r", "p", "u">> }

Audiences ==
    { <<"u", "s", "e", "r", "s">>,
      <<"s", "u", "b", "s", "c", "r", "i", "b", "e", "r", "s">>,
      <<"c", "u", "s", "t", "o", "m", "e", "r", "s">>,
      <<"m", "e", "m", "b", "e", "r", "s">> }

\* the eight structured_patterns: the position after the match of pattern k
\* that starts at position p of s (positions counted from 1), 0 when there
\* is none
PatternEnd(k, s, p) ==
    CASE k = 1 ->   \* [A-Z]{2,}:\s*[\d\$%]+[^.]*
            LET q == p + RunLength(s, p, Letters)
                e == DataEnd(s, q + 1, Digits \cup {"$", "%"})
            IN IF q - p >= 2 /\ q <= Len(s) /\ s[q] = ":" /\ e > 0
               THEN e + RunLengthNot(s, e, ".") ELSE 0
      [] k = 2 ->   \* \$[\d,]+\s*(?:million|billion|thousand)
            LET d == RunLength(s, p + 1, Digits \cup {","})
            IN IF p <= Len(s) /\ s[p] = "$" /\ d > 0
               THEN AltEnd(s, p + 1 + d + RunLength(s, p + 1 + d, Whitespace),
                           Magnitudes)
               ELSE 0
      [] k = 3 ->   \* \d+%\s*(?:growth|increase|decrease|change)
            LET q == p + RunLength(s, p, Digits)
            IN IF q > p /\ q <= Len(s) /\ s[q] = "%"
               THEN AltEnd(s, q + 1 + RunLength(s, q + 1, Whitespace), Changes)
               ELSE 0
      [] k = 4 ->   \* Q[1-4]\s+\d{4}:\s*[\d\$%]+
            LET w == RunLength(s, p + 2, Whitespace)
                r == p + 2 + w
            IN IF /\ p + 1 <= Len(s) /\ s[p] \in {"Q", "q"}
                  /\ s[p + 1] \in {"1", "2", "3", "4"}
                  /\ w > 0
                  /\ RunLength(s, r, Digits) >= 4
                  /\ r + 4 <= Len(s) /\ s[r + 4] = ":"
               THEN DataEnd(s, r + 5, Digits \cup {"$", "%"})
               ELSE 0
      [] k = 5 ->   \* FY\d{2,4}:\s*[\d\$%]+
            LET d == RunLength(s, p + 2, Digits)
                q == p + 2 + d
            IN IF /\ LiteralAt(Lower(s), p, <<"f", "y">>)
                  /\ d >= 2 /\ d <= 4
                  /\ q <= Len(s) /\ s[q] = ":"
               THEN DataEnd(s, q + 1, Digits \cup {"$", "%"})
               ELSE 0
      [] k = 6 ->   \* (?:Revenue|Profit|Loss|Income|EBITDA|MAU|ARPU):\s*[\d\$%,]+
            LET q == AltEnd(s, p, Metrics)
            IN IF q > 0 /\ q <= Len(s) /\ s[q] = ":"
               THEN DataEnd(s, q + 1, Digits \cup {"$", "%", ","})
               ELSE 0
      [] k = 7 ->   \* \d+\.\d+\s*(?:million|billion|thousand)
            LET q == p + RunLength(s, p, Digits)
                d == RunLength(s, q + 1, Digits)
            IN IF q > p /\ q <= Len(s) /\ s[q] = "." /\ d > 0
               THEN AltEnd(s, q + 1 + d + RunLength(s, q + 1 + d, Whitespace),
                           Magnitudes)
               ELSE 0
      [] k = 8 ->   \* [\d,]+\s+(?:users|subscribers|customers|members)
            LET q == p + RunLength(s, p, Digits \cup {","})
                w == RunLength(s, q, Whitespace)
            IN IF q > p /\ w > 0 THEN AltEnd(s, q + w, Audiences) ELSE 0

StructuredPatterns == 1..8

\* re.finditer(pattern, text, re.IGNORECASE) from position p on: the
\* (match.start(), match.end()) of the matches, left to right, none
\* overlapping another of the same pattern
RECURSIVE FindIter(_, _, _)
FindIter(k, text, p) ==
    IF p > Len(text) THEN <<>>
    ELSE IF PatternEnd(k, text, p) > 0
         THEN << <<p - 1, PatternEnd(k, text, p) - 1>> >>
                 \o FindIter(k, text, PatternEnd(k, text, p))
         ELSE FindIter(k, text, p + 1)

\* the loop over structured_patterns from pattern k on
RECURSIVE AllMatches(_, _)
AllMatches(k, text) ==
    IF k \notin StructuredPatterns THEN <<>>
    ELSE FindIter(k, text, 1) \o AllMatches(k + 1, text)

\* x put into a list sorted by start, behind every match that starts no later
RECURSIVE InsertByStart(_, _)
InsertByStart(sorted, x) ==
    IF sorted = <<>> THEN <<x>>
    ELSE IF x[1] < Head(sorted)[1] THEN <<x>> \o sorted
    ELSE <<Head(sorted)>> \o InsertByStart(Tail(sorted), x)

\* matches.sort(key=lambda x: x[0]): a stable sort
RECURSIVE SortByStart(_, _)
SortByStart(rest, sorted) ==
    IF rest = <<>> THEN sorted
    ELSE SortByStart(Tail(rest), InsertByStart(sorted, Head(rest)))

FinancialKeywords ==
    { <<"r", "e", "v", "e", "n", "u", "e">>, <<"p", "r", "o", "f", "i", "t">>,
      <<"l", "o", "s", "s">>, <<"i", "n", "c", "o", "m", "e">>,
      <<"e", "x", "p", "e", "n", "s", "e">>, <<"c", "o", "s", "t">>,
      <<"p", "r", "i", "c", "e">>, <<"a", "m", "o", "u", "n", "t">>,
      <<"t", "o", "t", "a", "l">>, <<"s", "u", "m">>,
      Chars_million, Chars_billion, Chars_thousand,
      <<"u", "s", "d">>, <<"e", "u", "r">>, <<"g", "b", "p">> }

\* _contains_numeric_financial_data: \d+, \$, % and the two keyword
\* alternations; each of the other patterns of the list holds a \d and
\* matches only where \d+ does
ContainsNumericFinancialData(text) ==
    \/ HasDigit(text)
    \/ "$" \in Range(text)
    \/ "%" \in Range(text)
    \/ \E w \in FinancialKeywords : Contains(Lower(text), w)

\* a segment of the result; span is the place of its text in the paragraph
\* (from, to; counted from 0), kept beside the fields of the dict; page and
\* confidence are handed through and left out
Segment(text, span, contains_financial_data) ==
    [text |-> text, line_count |-> 1, span |-> span,
     contains_financial_data |-> contains_financial_data]

\* text[from:to].strip() as a segment, nothing when it is empty
StrippedSegment(text, from, to) ==
    LET raw == Slice(text, from, to)
        stripped == Strip(raw)
        lead == Len(raw) - Len(LStrip(raw))
    IN IF stripped = <<>> THEN <<>>
       ELSE << Segment(stripped, <<from + lead, from + lead + Len(stripped)>>,
                       ContainsNumericFinancialData(stripped)) >>

\* matched_text.strip() as a standalone row
MatchSegment(text, start, end) ==
    LET raw == Slice(text, start, end)
        lead == Len(raw) - Len(LStrip(raw))
    IN Segment(Strip(raw), <<start + lead, start + lead + Len(Strip(raw))>>, TRUE)

SpInit ==
    /\ sp_pc = "start"
    /\ sp_text \in SpTexts
    /\ sp_matches = <<>>
    /\ sp_i = 1
    /\ sp_last_end = 0
    /\ sp_segments = <<>>

\* the matches are collected and sorted; without a match the paragraph is
\* returned whole
SpFindMatches ==
    /\ sp_pc = "start"
    /\ LET matches == SortByStart(AllMatches(1, sp_text), <<>>)
       IN /\ sp_matches' = matches
          /\ IF matches = <<>>
               THEN /\ sp_segments' =
                         << Segment(sp_text, <<0, Len(sp_text)>>,
                                    ContainsNumericFinancialData(sp_text)) >>
                    /\ sp_pc' = "returned"
               ELSE /\ sp_pc' = "split"
                    /\ UNCHANGED sp_segments
    /\ UNCHANGED <<sp_text, sp_i, sp_last_end>>
    /\ UNCHANGED notSp

\* one round of `for start, end, matched_text in matches`
SpSegment ==
    /\ sp_pc = "split"
    /\ sp_i <= Len(sp_matches)
    /\ LET start == sp_matches[sp_i][1]
           end == sp_matches[sp_i][2]
           pre == IF start > sp_last_end
                  THEN StrippedSegment(sp_text, sp_last_end, start) ELSE <<>>
       IN /\ sp_segments' =
               sp_segments \o pre \o <<MatchSegment(sp_text, start, end)>>
          /\ sp_last_end' = end
    /\ sp_i' = sp_i + 1
    /\ UNCHANGED <<sp_pc, sp_text, sp_matches>>
    /\ UNCHANGED notSp

\* the text after the last match, and the return
SpRemaining ==
    /\ sp_pc = "split"
    /\ sp_i > Len(sp_matches)
    /\ sp_segments' =
         sp_segments \o (IF sp_last_end < Len(sp_text)
                         THEN StrippedSegment(sp_text, sp_last_end, Len(sp_text))
                         ELSE <<>>)
    /\ sp_pc' = "returned"
    /\ UNCHANGED <<sp_text, sp_matches, sp_i, sp_last_end>>
    /\ UNCHANGED notSp

SpNext == SpFindMatches \/ SpSegment \/ SpRemaining

InitSplit == SpInit /\ IdleExcept("sp")

SpecSplit == InitSplit /\ [][SpNext]_vars

\* the places (from, to; counted from 0) of "12%" and of "Q1 2024" in
\* P_RevenueGrew
Span_12pct == <<13, 16>>
Span_Q1_2024 == <<20, 27>>

\* C23: for the paragraph "Revenue grew 12% in Q1 2024 following strong
\* demand." the result holds more than one segment, and a segment with the
\* "12%" span or the "Q1 2024" span is a row of its own, apart from the
\* prose around it, with contains_financial_data true.
C23_SampleIsSplit ==
    (sp_pc = "returned" /\ sp_text = P_RevenueGrew) =>
        /\ Len(sp_segments) > 1
        /\ \E i \in DOMAIN sp_segments :
              /\ \E sp \in {Span_12pct, Span_Q1_2024} :
                    /\ sp_segments[i].span[1] <= sp[1]
                    /\ sp[2] <= sp_segments[i].span[2]
              /\ sp_segments[i].span # <<0, Len(sp_text)>>
              /\ sp_segments[i].contains_financial_data


(***************************************************************************)
(* 29. Segments as a partition of the paragraph (textract_processor.py)    *)
(***************************************************************************)
\* C29: the segments returned by _split_paragraph_at_structured_data are
\* pairwise disjoint spans of the text in increasing position (no character
\* lies in two segments), and together they cover every character of the
\* text that is no whitespace, whatever matches the patterns produce.
C29_SegmentsPartitionText ==
    sp_pc = "returned" =>
        /\ \A i, j \in DOMAIN sp_segments :
              i < j => sp_segments[i].span[2] <= sp_segments[j].span[1]
        /\ \A p \in DOMAIN sp_text :
              sp_text[p] \notin Whitespace =>
                  \E i \in DOMAIN sp_segments :
                      /\ sp_segments[i].span[1] < p
                      /\ p <= sp_segments[i].span[2]


(***************************************************************************)
(* 24. Dedupe and sort (merge_normalize_qa.py)                             *)
(***************************************************************************)
\* the place in the input of the first item with the key of item
FirstWithKey(normalized_data, item) ==
    CHOOSE i \in DOMAIN normalized_data :
        /\ DedupKey(normalized_data[i]) = DedupKey(item)
        /\ \A j \in 1..(i - 1) : DedupKey(normalized_data[j]) # DedupKey(item)

\* C24: the output of deduplicate_and_sort holds no two items with the same
\* (page, section, column, value); for each key of the input it holds the
\* earliest input item with that key and no other; it is non-decreasing in
\* (page, section, row_id), a missing row_id read as 0; items equal on that
\* sort key keep their input order.
C24_DedupeAndSort ==
    mq_pc = "done" =>
        LET input == mq_normalized
            output == mq_results.final_data
        IN /\ \A i, j \in DOMAIN output :
                 i # j => DedupKey(output[i]) # DedupKey(output[j])
           /\ \A i \in DOMAIN input :
                 \E j \in DOMAIN output :
                     output[j] = input[FirstWithKey(input, input[i])]
           /\ \A j \in DOMAIN output :
                 \E i \in DOMAIN input :
                     /\ output[j] = input[i]
                     /\ i = FirstWithKey(input, input[i])
           /\ \A i, j \in DOMAIN output :
                 i < j =>
                    /\ ~SortKeyLess(output[j], output[i])
                    /\ ~SortKeyLess(output[i], output[j]) =>
                          FirstWithKey(input, output[i]) < FirstWithKey(input, output[j])

\* a run that moves a later item in front of an earlier one and keeps two
\* items with one sort key and different keys in their input order
C24_Witness ==
    /\ mq_pc = "done"
    /\ \E i, j \in DOMAIN mq_results.final_data :
          /\ i < j
          /\ FirstWithKey(mq_normalized, mq_results.final_data[i])
                > FirstWithKey(mq_normalized, mq_results.final_data[j])
    /\ \E i, j \in DOMAIN mq_results.final_data :
          /\ i < j
          /\ ~SortKeyLess(mq_results.final_data[i], mq_results.final_data[j])


(***************************************************************************)
(* 25. Chunks as a partition of the page's lines (chunking_processor.py)   *)
(***************************************************************************)
\* the text_lines of the chunks, one after the other
RECURSIVE ConcatTextLines(_)
ConcatTextLines(chunks) ==
    IF chunks = <<>> THEN <<>>
    ELSE Head(chunks).text_lines \o ConcatTextLines(Tail(chunks))

\* C25: the chunks of _chunk_narrative_text are non-empty, their text_lines
\* in chunk order make up the input line sequence, chunk i has the id
\* page_<n>_chunk_<i> for i = 1..k, and each chunk's token_count and
\* line_count are the sum of len(line)//4 and the number of its lines.
C25_ChunksPartitionLines ==
    ch_pc = "done" =>
        /\ ConcatTextLines(ch_chunks) = ch_lines
        /\ \A i \in DOMAIN ch_chunks :
              /\ ch_chunks[i].text_lines # <<>>
              /\ ch_chunks[i].chunk_id = <<ch_page, i>>
              /\ ch_chunks[i].token_count = TokensOf(ch_chunks[i].text_lines)
              /\ ch_chunks[i].line_count = Len(ch_chunks[i].text_lines)

\* a page cut into more than one chunk, one of them holding several lines
\* whose lengths are no multiples of 4
C25_Witness ==
    /\ ch_pc = "done"
    /\ Len(ch_chunks) > 1
    /\ \E i \in DOMAIN ch_chunks :
          /\ Len(ch_chunks[i].text_lines) > 1
          /\ LineTokens(SumSeq(ch_chunks[i].text_lines))
                # ch_chunks[i].token_count


(***************************************************************************)
(* 26. Splitting a text section (structured_llm_processor.py)              *)
(***************************************************************************)
MaxSectionLines == 7
MaxMaxLines == 2

\* a line that ends no sentence, and lines that end one, with and without a
\* trailing blank
SsLines ==
    { <<":", "e">>, <<"b", ".", " ">>, <<"c", "!">>, <<"?">>, <<"d", ":">> }

SentenceEnds == {".", "!", "?", ":"}

\* the lines a chunk may hold beyond max_lines before a split is forced
ForcedSplitSlack == 5

\* line.strip().endswith(('.', '!', '?', ':'))
EndsSentence(line) ==
    Strip(line) # <<>> /\ Last(Strip(line)) \in SentenceEnds

\* the test of the forced split, one line late
SplitForcedAbove(current_chunk, max_lines) ==
    Len(current_chunk) > max_lines + ForcedSplitSlack

\* `len(current_chunk) >= max_lines + 5`
SplitForced(current_chunk, max_lines) ==
    Len(current_chunk) >= max_lines + ForcedSplitSlack

\* the for loop of split_text_section followed by the remaining lines
RECURSIVE SplitLoop(_, _, _, _)
SplitLoop(rest, max_lines, chunks, current_chunk) ==
    IF rest = <<>>
    THEN IF current_chunk # <<>> THEN Append(chunks, current_chunk) ELSE chunks
    ELSE LET line == Head(rest)
             appended == Append(current_chunk, line)
         IN IF /\ Len(appended) >= max_lines
               /\ EndsSentence(line) \/ SplitForced(appended, max_lines)
            THEN SplitLoop(Tail(rest), max_lines, Append(chunks, appended), <<>>)
            ELSE SplitLoop(Tail(rest), max_lines, chunks, appended)

SplitTextSection(text_lines, max_lines) ==
    SplitLoop(text_lines, max_lines, <<>>, <<>>)

SsInit ==
    /\ ss_pc = "input"
    /\ ss_text_lines \in SeqsUpTo(SsLines, MaxSectionLines)
    /\ ss_max_lines \in 1..MaxMaxLines
    /\ ss_chunks = <<>>

SsSplit ==
    /\ ss_pc = "input"
    /\ ss_chunks' = SplitTextSection(ss_text_lines, ss_max_lines)
    /\ ss_pc' = "done"
    /\ UNCHANGED <<ss_text_lines, ss_max_lines>>
    /\ UNCHANGED notSs

SsNext == SsSplit

InitSection == SsInit /\ IdleExcept("ss")

SpecSection == InitSection /\ [][SsNext]_vars

\* the chunks one after the other
RECURSIVE ConcatChunks(_)
ConcatChunks(chunks) ==
    IF chunks = <<>> THEN <<>> ELSE Head(chunks) \o ConcatChunks(Tail(chunks))

\* C26: split_text_section returns non-empty chunks whose concatenation is
\* the input; every chunk has at most max_lines+5 lines; every chunk but
\* the last has at least max_lines lines and either ends with a line whose
\* stripped text ends in '.', '!', '?' or ':' or has exactly max_lines+5
\* lines.
C26_SectionChunks ==
    ss_pc = "done" =>
        /\ ConcatChunks(ss_chunks) = ss_text_lines
        /\ \A i \in DOMAIN ss_chunks :
              /\ ss_chunks[i] # <<>>
              /\ Len(ss_chunks[i]) <= ss_max_lines + ForcedSplitSlack
              /\ i < Len(ss_chunks) =>
                    /\ Len(ss_chunks[i]) >= ss_max_lines
                    /\ \/ EndsSentence(Last(ss_chunks[i]))
                       \/ Len(ss_chunks[i]) = ss_max_lines + ForcedSplitSlack

\* a forced split followed by further lines, and a split at a sentence end
\* behind a trailing blank
C26_Witness ==
    /\ ss_pc = "done"
    /\ Len(ss_chunks) > 1
    /\ Len(ss_chunks[1]) = ss_max_lines + ForcedSplitSlack
    /\ ~EndsSentence(Last(ss_chunks[1]))


(***************************************************************************)
(* 27. Merging lines into paragraphs (textract_processor.py)               *)
(***************************************************************************)
MaxLineBlocks == 3

\* a short line, a long line, and a line with a percentage
L_Overview ==
    <<"O", "v", "e", "r", "v", "i", "e", "w">>
L_Company ==
    <<"T", "h", "e", " ", "c", "o", "m", "p", "a", "n", "y", " ", "k", "e",
      "p", "t", " ", "w", "o", "r", "k", "i", "n", "g", " ", "w", "i", "t",
      "h", " ", "l", "o", "n", "g", "-", "s", "t", "a", "n", "d", "i", "n",
      "g", " ", "p", "a", "r", "t", "n", "e", "r", "s", " ", "i", "n", " ",
      "e", "v", "e", "r", "y", " ", "r", "e", "g", "i", "o", "n", ".">>
L_Growth ==
    <<"G", "r", "o", "w", "t", "h", " ", "1", "2", "%">>

MlTexts == {L_Overview, L_Company, L_Growth}

\* _contains_numeric_financial_data of the line texts, worked out once
MlFinancial == [t \in MlTexts |-> ContainsNumericFinancialData(t)]

\* geometry['BoundingBox']: none, or Top and Height in thousandths of the
\* page height
MlBoxes ==
    {Null} \cup {[Top |-> t, Height |-> 10] : t \in {100, 115, 200}}

\* a LINE block; confidence is left out
MlLineBlocks == [text : MlTexts, page : {1, 2}, box : MlBoxes]

\* the lengths that make a line short and long
ShortLineLength == 40
LongLineLength == 60

\* the vertical gap, in thousandths, above which a paragraph ends
LargeGap == 20

\* bbox.get('Top', 0) of a line
TopOf(line) == IF line.box = Null THEN 0 ELSE line.box.Top

\* key(a) < key(b) for the sort key (page, Top)
LineKeyLess(a, b) ==
    \/ a.page < b.page
    \/ a.page = b.page /\ TopOf(a) < TopOf(b)

\* x put into a sorted list of lines behind every line that is not greater
RECURSIVE InsertLine(_, _)
InsertLine(sorted, x) ==
    IF sorted = <<>> THEN <<x>>
    ELSE IF LineKeyLess(x, Head(sorted)) THEN <<x>> \o sorted
    ELSE <<Head(sorted)>> \o InsertLine(Tail(sorted), x)

\* line_blocks.sort(key=lambda x: (page, Top)): a stable sort
RECURSIVE SortLines(_, _)
SortLines(rest, sorted) ==
    IF rest = <<>> THEN sorted
    ELSE SortLines(Tail(rest), InsertLine(sorted, Head(rest)))

\* a new paragraph only for a page change, a current line with numeric data,
\* a large gap or a short line before a long one
ShouldStartNewIgnoringPrevious(line, prev_line) ==
    IF line.page # prev_line.page THEN TRUE
    ELSE IF MlFinancial[line.text] THEN TRUE
    ELSE \/ /\ prev_line.box # Null /\ line.box # Null
            /\ line.box.Top - (prev_line.box.Top + prev_line.box.Height) > LargeGap
         \/ Len(prev_line.text) < ShortLineLength /\ Len(line.text) > LongLineLength

\* should_start_new for line i > 0 and the line before it
ShouldStartNew(line, prev_line) ==
    IF line.page # prev_line.page THEN TRUE
    ELSE IF MlFinancial[line.text] \/ MlFinancial[prev_line.text] THEN TRUE
    ELSE \/ /\ prev_line.box # Null /\ line.box # Null
            /\ line.box.Top - (prev_line.box.Top + prev_line.box.Height) > LargeGap
         \/ Len(prev_line.text) < ShortLineLength /\ Len(line.text) > LongLineLength

\* current_paragraph with its first line; lines holds the places of its
\* lines in the sorted list, kept beside the fields of the dict
StartParagraph(line_blocks, i) ==
    [text |-> line_blocks[i].text, page |-> line_blocks[i].page,
     line_count |-> 1, lines |-> <<i>>,
     contains_financial_data |-> MlFinancial[line_blocks[i].text]]

\* line i added to current_paragraph
AddLine(current_paragraph, line_blocks, i) ==
    [text |-> current_paragraph.text \o <<" ">> \o line_blocks[i].text,
     page |-> current_paragraph.page,
     line_count |-> current_paragraph.line_count + 1,
     lines |-> Append(current_paragraph.lines, i),
     contains_financial_data |->
        current_paragraph.contains_financial_data \/ MlFinancial[line_blocks[i].text]]

\* the for loop of _merge_lines_into_paragraphs from line i on, followed by
\* the final paragraph; paragraphs holds the paragraphs handed to
\* _split_paragraph_at_structured_data; every line text is non-empty, so
\* current_paragraph['text'] is non-empty from the first line on
RECURSIVE MergeLoop(_, _, _, _)
MergeLoop(line_blocks, i, paragraphs, current_paragraph) ==
    IF i > Len(line_blocks) THEN Append(paragraphs, current_paragraph)
    ELSE IF ShouldStartNew(line_blocks[i], line_blocks[i - 1])
         THEN MergeLoop(line_blocks, i + 1, Append(paragraphs, current_paragraph),
                        StartParagraph(line_blocks, i))
         ELSE MergeLoop(line_blocks, i + 1, paragraphs,
                        AddLine(current_paragraph, line_blocks, i))

\* _merge_lines_into_paragraphs up to the splitting of each paragraph
MergeLinesIntoParagraphs(sorted_blocks) ==
    IF sorted_blocks = <<>> THEN <<>>
    ELSE MergeLoop(sorted_blocks, 2, <<>>, StartParagraph(sorted_blocks, 1))

MlInit ==
    /\ ml_pc = "input"
    /\ ml_line_blocks \in SeqsUpTo(MlLineBlocks, MaxLineBlocks)
    /\ ml_paragraphs = <<>>

\* the list is sorted in place, then merged
MlMerge ==
    /\ ml_pc = "input"
    /\ ml_line_blocks' = SortLines(ml_line_blocks, <<>>)
    /\ ml_paragraphs' = MergeLinesIntoParagraphs(SortLines(ml_line_blocks, <<>>))
    /\ ml_pc' = "done"
    /\ UNCHANGED notMl

MlNext == MlMerge

InitParagraphs == MlInit /\ IdleExcept("ml")

SpecParagraphs == InitParagraphs /\ [][MlNext]_vars

\* the places of the lines of the paragraphs, one paragraph after the other
RECURSIVE ConcatLines(_)
ConcatLines(paragraphs) ==
    IF paragraphs = <<>> THEN <<>>
    ELSE Head(paragraphs).lines \o ConcatLines(Tail(paragraphs))

\* C27: the paragraphs assembled by _merge_lines_into_paragraphs, before
\* they are split at structured data, cut the lines sorted by page and
\* position into runs of consecutive lines, every line in exactly one
\* paragraph; no paragraph spans two pages; every line that matches the
\* numeric/financial pattern set is a paragraph on its own.
C27_ParagraphsPartitionLines ==
    ml_pc = "done" =>
        /\ \A i \in 1..(Len(ml_line_blocks) - 1) :
              ~LineKeyLess(ml_line_blocks[i + 1], ml_line_blocks[i])
        /\ ConcatLines(ml_paragraphs) = [i \in DOMAIN ml_line_blocks |-> i]
        /\ \A k \in DOMAIN ml_paragraphs :
              LET p == ml_paragraphs[k]
              IN /\ p.lines # <<>>
                 /\ p.line_count = Len(p.lines)
                 /\ \A j \in DOMAIN p.lines : ml_line_blocks[p.lines[j]].page = p.page
                 /\ Len(p.lines) > 1 =>
                       \A j \in DOMAIN p.lines :
                           ~MlFinancial[ml_line_blocks[p.lines[j]].text]

\* a financial line between two plain lines of one page with small gaps: it
\* stands alone between their paragraphs
C27_Witness ==
    /\ ml_pc = "done"
    /\ Len(ml_line_blocks) = 3
    /\ Len(ml_paragraphs) = 3
    /\ \A i \in 1..3 : ml_line_blocks[i].page = 1 /\ ml_line_blocks[i].box = Null
    /\ ml_line_blocks[1].text = L_Company
    /\ ml_line_blocks[2].text = L_Growth
    /\ ml_line_blocks[3].text = L_Overview


(***************************************************************************)
(* 28. Early exit of the streaming loop (agentic_processor_streaming.py)   *)
(***************************************************************************)
\* C28: whatever steps fail, a coverage_achieved event is emitted only when
\* iteration_history holds at least two recorded iterations, the one just
\* completed included.
C28_EarlyExitAfterTwoIterations ==
    EventsOfType("coverage_achieved") # {} => Len(sg_results) >= 2


(***************************************************************************)
(* 30. Results records and their texts (storage_manager.py)                *)
(***************************************************************************)
DigitOrder == <<"0", "1", "2", "3", "4", "5", "6", "7", "8", "9">>

DigitValue(c) == CHOOSE k \in DOMAIN DigitOrder : DigitOrder[k] = c

\* a < b for two digit strings of one length
RECURSIVE DigitsLess(_, _)
DigitsLess(a, b) ==
    IF a = <<>> \/ b = <<>> THEN FALSE
    ELSE IF Head(a) = Head(b) THEN DigitsLess(Tail(a), Tail(b))
    ELSE DigitValue(Head(a)) < DigitValue(Head(b))

\* clock reading a is earlier than clock reading b
Earlier(a, b) == DigitsLess(a.date \o a.time, b.date \o b.time)

\* os.path.getctime(filepath): the time of the file's last write, which is
\* the clock reading stamped in its content
FileTime(f) ==
    IF "extraction_timestamp" \in DOMAIN f.content
    THEN f.content.extraction_timestamp
    ELSE f.content.processing_timestamp

\* cleanup_old_files(days_old): every file written before cutoff_time is
\* removed, text files and results files alike
StCleanupOldFiles ==
    /\ st_calls < MaxCalls
    /\ \E cutoff_time \in Clock :
          st_files' = {f \in st_files : ~Earlier(FileTime(f), cutoff_time)}
    /\ st_calls' = st_calls + 1
    /\ UNCHANGED <<st_stored, st_results_calls>>
    /\ UNCHANGED notSt

StCleanupNext ==
    \/ StoreExtractedText
    \/ StoreProcessingResults
    \/ StCleanupOldFiles

SpecStoreCleanup == InitStore /\ [][StCleanupNext]_vars

\* C30: after any sequence of store_extracted_text,
\* store_processing_results and cleanup_old_files calls, every record that
\* a get_processing_history call returns links to a text that
\* retrieve_text finds.
C30_ResultsLinkToText ==
    \A text_id \in {f.content.text_id : f \in st_files} :
        \A record \in GetProcessingHistory(st_files, text_id) :
            RetrieveText(st_files, record.text_id) # NoRecord

\* a results record left behind: its text was stored and has been removed
\* by a cleanup that kept the newer results file
C30_ResultsLeftBehind ==
    \E f \in st_files :
        /\ "processing_timestamp" \in DOMAIN f.content
        /\ \E s \in st_stored : s.id = f.content.text_id
        /\ RetrieveText(st_files, f.content.text_id) = NoRecord

====
